---- MODULE Spec2Model ----
(***************************************************************************)
(* GameControllerView: the device Reader (gamepad/reader.go), the state    *)
(* model and delta (gamepad/state.go), the mapping table                   *)
(* (gamepad/mapping.go), the Hub (hub/hub.go), the Broadcaster             *)
(* (hub/broadcast.go), the message framing (hub/message.go), the client    *)
(* loops (hub/client.go) and the connection handler (server/handler.go).   *)
(*                                                                         *)
(* Analog values are fixed-point numbers in thousandths (One = 1.0); a     *)
(* float64 of the program is represented by its value truncated to a       *)
(* thousandth. Raw samples are int16.                                      *)
(***************************************************************************)
EXTENDS Integers, Sequences, FiniteSets, TLC

\* ------------------------------------------------------------------------
\* Bounds of the model
\* ------------------------------------------------------------------------
\* Capacity of the Reader's change channel in the model (64 in NewReader).
ChangesCap == 1
\* Capacity of a client's outbound queue in the model (256 in NewClient).
SendCap == 2
\* The sequence counter is not advanced past this value.
MaxSeq == 2
\* The same cap in the specification where a browser applies the envelopes.
MaxSeqView == 3
\* The same cap in the specification of the Hub's unregistrations.
MaxSeqHub == 3
\* The same cap in the specification of broadcasts to two connections.
MaxSeqCast == 3
\* The same cap in the specification of select_player requests.
MaxSeqSel == 3
\* The same cap in the specification of the shutdown.
MaxSeqStop == 2
\* The same cap in the specification of a stick that creeps.
MaxSeqDrift == 6
\* The same cap in the specification of a peer that stops reading.
MaxSeqEvict == 4
\* The sequence counter's cap in the specification that counts deltas.
MaxSeqCount == 205

\* Device identities (sdl.JoystickID) and client connections.
Devices == {1, 2, 3}
Clients == {"c1", "c2"}

\* ------------------------------------------------------------------------
\* Program constants
\* ------------------------------------------------------------------------
analogThreshold == 10
deadzone == 50
deltaCountSync == 100
MaxInt16 == 32767
MinInt16 == -32768
hatUp == 1
hatRight == 2
hatDown == 4
hatLeft == 8

One == 100 * analogThreshold

\* ------------------------------------------------------------------------
\* Arithmetic helpers
\* ------------------------------------------------------------------------
Abs(x) == IF x < 0 THEN -x ELSE x

\* Quotient rounded toward zero (the thousandth a float64 quotient lies in).
QuotTrunc(a, b) ==
    IF (a >= 0 /\ b > 0) \/ (a <= 0 /\ b < 0)
    THEN Abs(a) \div Abs(b)
    ELSE -(Abs(a) \div Abs(b))

\* int16 arithmetic of Go wraps around.
Wrap16(x) == ((x - MinInt16) % (2 * (MaxInt16 + 1))) + MinInt16

\* ------------------------------------------------------------------------
\* gamepad/mapping.go
\* ------------------------------------------------------------------------
NormalizeAxis(raw) ==
    LET v == QuotTrunc(raw * One, MaxInt16)
    IN  IF v < -One THEN -One ELSE v

\* NormalizeTrigger without its final "if v > 1 { v = 1 }".
NormalizeTriggerUnclamped(raw, rawMin, rawMax) ==
    IF rawMax = rawMin THEN 0
    ELSE LET v == QuotTrunc(Wrap16(raw - rawMin) * One, Wrap16(rawMax - rawMin))
         IN  IF v < 0 THEN 0 ELSE v

NormalizeTrigger(raw, rawMin, rawMax) ==
    IF rawMax = rawMin THEN 0
    ELSE LET v == QuotTrunc(Wrap16(raw - rawMin) * One, Wrap16(rawMax - rawMin))
         IN  IF v < 0 THEN 0 ELSE IF v > One THEN One ELSE v

\* ApplyDeadzone that rescales what lies outside the deadzone towards 0.
ApplyDeadzoneRescaled(v, threshold) ==
    IF Abs(v) < threshold THEN 0 ELSE IF v > 0 THEN v - threshold ELSE v + threshold

ApplyDeadzone(v, threshold) == IF Abs(v) < threshold THEN 0 ELSE v

AxisTargets == {"left_x", "left_y", "right_x", "right_y", "lt", "rt"}
ButtonTargets ==
    {"a", "b", "x", "y", "lb", "rb", "select", "start", "home", "l3", "r3"}

xboxMapping ==
    [Name |-> "xbox",
     Axes |-> {[Target |-> "left_x",  IsTrigger |-> FALSE, Invert |-> FALSE, RawMin |-> 0, RawMax |-> 0],
               [Target |-> "left_y",  IsTrigger |-> FALSE, Invert |-> TRUE,  RawMin |-> 0, RawMax |-> 0],
               [Target |-> "right_x", IsTrigger |-> FALSE, Invert |-> FALSE, RawMin |-> 0, RawMax |-> 0],
               [Target |-> "right_y", IsTrigger |-> FALSE, Invert |-> TRUE,  RawMin |-> 0, RawMax |-> 0],
               [Target |-> "lt", IsTrigger |-> TRUE, Invert |-> FALSE, RawMin |-> MinInt16, RawMax |-> MaxInt16],
               [Target |-> "rt", IsTrigger |-> TRUE, Invert |-> FALSE, RawMin |-> MinInt16, RawMax |-> MaxInt16]},
     Buttons |-> ButtonTargets,
     HasHat |-> TRUE]

playstationMapping == [xboxMapping EXCEPT !.Name = "playstation"]

switchProMapping ==
    [xboxMapping EXCEPT !.Name = "switch_pro",
                        !.Axes = {am \in xboxMapping.Axes : ~am.IsTrigger}]

genericMapping == [xboxMapping EXCEPT !.Name = "generic"]

\* Vendor/product pairs of the known-device table.
knownDevices ==
    [k \in {<<1118, 654>>, <<1118, 767>>, <<1118, 2834>>, <<1118, 2835>>,
            <<1356, 3302>>, <<1356, 2508>>, <<1356, 1476>>, <<1406, 8201>>} |->
        IF k[1] = 1118 THEN xboxMapping
        ELSE IF k[1] = 1356 THEN playstationMapping
        ELSE switchProMapping]

GetMapping(vendorID, productID) ==
    IF <<vendorID, productID>> \in DOMAIN knownDevices
    THEN knownDevices[<<vendorID, productID>>]
    ELSE genericMapping

\* The repository's other mapping.go: its GetMapping ends in
\* "return xboxMapping".
GetMappingXbox(vendorID, productID) ==
    IF <<vendorID, productID>> \in DOMAIN knownDevices
    THEN knownDevices[<<vendorID, productID>>]
    ELSE xboxMapping

\* The mapping.go files a build of the package can contain.
Builds == {"generic_fallback", "xbox_fallback"}
\* ------------------------------------------------------------------------
\* gamepad/state.go
\* ------------------------------------------------------------------------
ZeroSticks == [lx |-> 0, ly |-> 0, lp |-> FALSE, rx |-> 0, ry |-> 0, rp |-> FALSE]
ZeroTriggers == [lt |-> 0, rt |-> 0]

\* GamepadState{}: the zero value.
ZeroState ==
    [Connected |-> FALSE, ControllerType |-> "", Name |-> "",
     Buttons |-> {}, Dpad |-> {}, Sticks |-> ZeroSticks,
     Triggers |-> ZeroTriggers, PlayerIndex |-> 0]

\* floatEqual with its comparison the other way round.
floatEqualInverted(a, b) == Abs(a - b) > analogThreshold

floatEqual(a, b) == Abs(a - b) < analogThreshold

\* The fields of DeltaChanges that are present (non-nil).
ComputeDelta(old, new) ==
    (IF old.Connected # new.Connected THEN {"connected"} ELSE {})
    \cup (IF old.ControllerType # new.ControllerType THEN {"controllerType"} ELSE {})
    \cup (IF old.Name # new.Name THEN {"name"} ELSE {})
    \cup (IF old.Buttons # new.Buttons THEN {"buttons"} ELSE {})
    \cup (IF old.Dpad # new.Dpad THEN {"dpad"} ELSE {})
    \cup (IF \/ ~floatEqual(old.Sticks.lx, new.Sticks.lx)
             \/ ~floatEqual(old.Sticks.ly, new.Sticks.ly)
             \/ old.Sticks.lp # new.Sticks.lp
             \/ ~floatEqual(old.Sticks.rx, new.Sticks.rx)
             \/ ~floatEqual(old.Sticks.ry, new.Sticks.ry)
             \/ old.Sticks.rp # new.Sticks.rp
          THEN {"sticks"} ELSE {})
    \cup (IF \/ ~floatEqual(old.Triggers.lt, new.Triggers.lt)
             \/ ~floatEqual(old.Triggers.rt, new.Triggers.rt)
          THEN {"triggers"} ELSE {})

\* DeltaChanges.IsEmpty: every field is nil.
IsEmpty(d) == d = {}

\* What a non-nil field of DeltaChanges points to: the field of new_.
DeltaField(new, f) ==
    CASE f = "connected" -> new.Connected
      [] f = "controllerType" -> new.ControllerType
      [] f = "name" -> new.Name
      [] f = "buttons" -> new.Buttons
      [] f = "dpad" -> new.Dpad
      [] f = "sticks" -> new.Sticks
      [] f = "triggers" -> new.Triggers

\* ------------------------------------------------------------------------
\* The devices and their hardware
\* ------------------------------------------------------------------------
\* Vendor/product identifiers and names reported by SDL for each device:
\* device 1 is an Xbox 360 pad, device 2 is not in the known-device table.
DeviceVendor(id) == IF id = 1 THEN 1118 ELSE 9999
DeviceProduct(id) == IF id = 1 THEN 654 ELSE id
DeviceName(id) == IF id = 1 THEN "Xbox 360 Controller" ELSE "USB Gamepad"

\* A hardware sample: the raw axis values, the pressed buttons (by target)
\* and the hat bitmask a poll reads.
RestSample ==
    [axes |-> [t \in AxisTargets |-> IF t \in {"lt", "rt"} THEN MinInt16 ELSE 0],
     buttons |-> {}, hat |-> 0]
SampleA == [RestSample EXCEPT !.buttons = {"a"}]
SampleHalf == [RestSample EXCEPT !.axes["left_x"] = 16384]
SampleJitter == [RestSample EXCEPT !.axes["left_x"] = 16500]
\* The samples of the pipeline specifications and of the Reader's own.
FewSamples == {RestSample, SampleA}
\* A stick that creeps by less than analogThreshold per sample while
\* button a is pressed and released: left x is 0.500, 0.506 and 0.512.
SampleCreepA == [RestSample EXCEPT !.axes["left_x"] = 16600, !.buttons = {"a"}]
SampleCreep == [RestSample EXCEPT !.axes["left_x"] = 16800]

VARIABLES
    \* the devices
    present,        \* devices physically plugged in (sdl.JoystickConnected)
    hw,             \* hw[id]: the sample device id currently reports
    \* gamepad.Reader
    joysticks,      \* Reader.joysticks: the open devices (keys of the map)
    joystickOrder,  \* Reader.joystickOrder: open devices in connection order
    activeID,       \* Reader.activeID
    hasActive,      \* Reader.hasActive
    state,          \* Reader.state (CurrentState)
    prevState,      \* Reader.prevState
    changes,        \* Reader.changes: the change channel's queued snapshots
    \* hub.Broadcaster
    lastState,      \* Broadcaster.lastState
    seq,            \* Broadcaster.seq
    deltaCount,     \* Run's local deltaCount
    bpc,            \* where Run is: "select", "load", "store", "send"
    bsrc,           \* what Run is serving: "change", "tick" or "none"
    bdelta,         \* Run's local delta
    bload,          \* the value of seq Run loaded for its seq++
    \* hub.Hub
    clients,        \* Hub.clients: the live set
    hubpc,          \* where Hub.Run is: "select", "register", "unregister"
    hubarg,         \* the client Hub.Run received from its channel
    evict,          \* evict[c]: eviction goroutines waiting in h.unregister <- c
    \* hub.Client and the connection handler
    cpc,            \* cpc[c]: where c's connection handler is
    sisload,        \* sisload[c]: the seq SendInitialState loaded for its seq++
    send,           \* send[c]: c.send, the outbound queue
    sendClosed,     \* sendClosed[c]: close(c.send) has been executed
    playerIndex,    \* playerIndex[c]: c.playerIndex
    wpc,            \* wpc[c]: WritePump: "off", "run", "done"
    rpc,            \* rpc[c]: ReadPumpWithHandler: "off", "run", "confirm", "unreg", "done"
    confirm,        \* confirm[c]: the player index of the pending confirmation
    view,           \* view[c]: the state the browser holds after the envelopes written to it
    panicked,       \* a goroutine panicked (send on or close of a closed channel)
    \* observations
    builtMax,       \* the largest seq of the full/delta envelopes built so far
    deltaRun,       \* delta envelopes sent for changes since the last full sent for a change
    firstEnv,       \* firstEnv[c]: type of the first full/delta envelope put on c.send
    skipped,        \* Run read a snapshot with an empty delta and sent nothing
    unregs,         \* unregs[c]: unregister requests for c that Hub.Run has served
    resynced,       \* clients handed a timer full after the Reader's last state change
    \* main and Reader.Run
    ctxDone,        \* main's context has been cancelled
    runpc,          \* Reader.Run: "loop", "returned" (Run returned), "done" (readerDone closed)
    mainpc,         \* main: "select", "wait_reader", "shutdown" (srv.Shutdown called)
    \* calls of the package's pure functions
    arg,            \* the arguments of the call
    res,            \* res.done: the call has returned; res.val: what it returned
    \* frontend/app.js: one page in a browser
    urlP,           \* the URL's parameter p as text ("" when absent)
    selectedPlayerIndex,
    ws,             \* the page's WebSocket: "none", "connecting", "open", "closing", "closed"
    wsSent,         \* the messages the page has sent on that WebSocket
    timers,         \* pending setTimeout callbacks of scheduleReconnect
    reconnectDelay, \* in ms
    sockets,        \* how many WebSockets the page has created
    \* the connections' peers
    stalled         \* stalled[c]: c's peer has stopped reading; a write on c.conn blocks

deviceVars == <<present, hw>>
readerVars ==
    <<joysticks, joystickOrder, activeID, hasActive, state, prevState, changes>>
bcastVars == <<lastState, seq, deltaCount, bpc, bsrc, bdelta, bload>>
hubVars == <<clients, hubpc, hubarg, evict>>
clientVars ==
    <<cpc, sisload, send, sendClosed, playerIndex, wpc, rpc, confirm, view, panicked>>
obsVars == <<builtMax, deltaRun, firstEnv, skipped, unregs>>
lifeVars == <<ctxDone, runpc, mainpc>>
callVars == <<arg, res>>
pageVars == <<urlP, selectedPlayerIndex, ws, wsSent, timers, reconnectDelay, sockets>>
vars ==
    <<deviceVars, readerVars, bcastVars, hubVars, clientVars, obsVars, resynced, lifeVars,
      callVars, pageVars, stalled>>

\* ------------------------------------------------------------------------
\* gamepad/reader.go
\* ------------------------------------------------------------------------
\* Position of id in the connection order, 0 when it is not there.
IndexOf(order, id) ==
    IF \E i \in 1..Len(order) : order[i] = id
    THEN CHOOSE i \in 1..Len(order) : order[i] = id
    ELSE 0

RemoveFrom(order, id) == SelectSeq(order, LAMBDA x : x # id)

\* GetPlayerIndex: the 1-based number of the active gamepad.
GetPlayerIndex(order, active, has) == IF has THEN IndexOf(order, active) ELSE 0

\* A send that makes room by discarding the oldest queued snapshot.
emitStateDropOldest(ch, s) ==
    IF Len(ch) < ChangesCap THEN Append(ch, s) ELSE Append(Tail(ch), s)

\* emitState: a non-blocking send of Reader.state on the change channel.
emitState(ch, s) == IF Len(ch) < ChangesCap THEN Append(ch, s) ELSE ch

\* The state pollState assembles from a device's sample.
AxisValue(sample, am) ==
    IF am.IsTrigger
    THEN ApplyDeadzone(NormalizeTrigger(sample.axes[am.Target], am.RawMin, am.RawMax), deadzone)
    ELSE LET v == NormalizeAxis(sample.axes[am.Target])
         IN  ApplyDeadzone(IF am.Invert THEN -v ELSE v, deadzone)

Mapped(mapping, sample, target) ==
    IF \E am \in mapping.Axes : am.Target = target
    THEN AxisValue(sample, CHOOSE am \in mapping.Axes : am.Target = target)
    ELSE 0

HatDpad(hat) ==
    (IF (hat \div hatUp) % 2 = 1 THEN {"up"} ELSE {})
    \cup (IF (hat \div hatRight) % 2 = 1 THEN {"right"} ELSE {})
    \cup (IF (hat \div hatDown) % 2 = 1 THEN {"down"} ELSE {})
    \cup (IF (hat \div hatLeft) % 2 = 1 THEN {"left"} ELSE {})

Assemble(id, sample, pidx) ==
    LET mapping == GetMapping(DeviceVendor(id), DeviceProduct(id))
        pressed == sample.buttons \cap mapping.Buttons
    IN  [Connected |-> TRUE,
         ControllerType |-> mapping.Name,
         Name |-> DeviceName(id),
         Buttons |-> pressed \ {"l3", "r3"},
         Dpad |-> IF mapping.HasHat THEN HatDpad(sample.hat) ELSE {},
         Sticks |-> [lx |-> Mapped(mapping, sample, "left_x"),
                     ly |-> Mapped(mapping, sample, "left_y"),
                     lp |-> "l3" \in pressed,
                     rx |-> Mapped(mapping, sample, "right_x"),
                     ry |-> Mapped(mapping, sample, "right_y"),
                     rp |-> "r3" \in pressed],
         Triggers |-> [lt |-> Mapped(mapping, sample, "lt"),
                       rt |-> Mapped(mapping, sample, "rt")],
         PlayerIndex |-> pidx]

ReaderInit ==
    /\ joysticks = {}
    /\ joystickOrder = <<>>
    /\ activeID = 0
    /\ hasActive = FALSE
    /\ state = ZeroState
    /\ prevState = ZeroState
    /\ changes = <<>>

\* A hardware input changes on a plugged device.
HwInput(samples) ==
    \E id \in present, s \in samples :
        /\ ~panicked
        /\ UNCHANGED <<lifeVars, callVars, pageVars, stalled>>
        /\ hw[id] # s
        /\ hw' = [hw EXCEPT ![id] = s]
        /\ UNCHANGED <<present, readerVars, bcastVars, hubVars, clientVars, obsVars, resynced>>

\* A device is plugged in; SDL will report EventJoystickAdded.
Plug(devs) ==
    \E id \in devs \ present :
        /\ ~panicked
        /\ UNCHANGED <<lifeVars, callVars, pageVars, stalled>>
        /\ present' = present \cup {id}
        /\ hw' = [hw EXCEPT ![id] = RestSample]
        /\ UNCHANGED <<readerVars, bcastVars, hubVars, clientVars, obsVars, resynced>>

\* A device is unplugged; SDL will report EventJoystickRemoved.
Unplug ==
    \E id \in present :
        /\ ~panicked
        /\ UNCHANGED <<lifeVars, callVars, pageVars, stalled>>
        /\ present' = present \ {id}
        /\ UNCHANGED <<hw, readerVars, bcastVars, hubVars, clientVars, obsVars, resynced>>

\* An openJoystick without the test for a device already in the map.
openJoystickAgain(id, opened) ==
    /\ ~panicked
    /\ runpc = "loop"
    /\ UNCHANGED <<lifeVars, callVars, pageVars, stalled>>
    /\ opened => id \in present
    /\ IF ~opened
       THEN /\ UNCHANGED <<joysticks, joystickOrder, activeID, hasActive, state, changes, resynced>>
       ELSE LET order == Append(joystickOrder, id)
                mapping == GetMapping(DeviceVendor(id), DeviceProduct(id))
                s == [state EXCEPT !.Connected = TRUE,
                                   !.Name = DeviceName(id),
                                   !.ControllerType = mapping.Name,
                                   !.PlayerIndex = IndexOf(order, id)]
            IN  /\ joysticks' = joysticks \cup {id}
                /\ joystickOrder' = order
                /\ IF ~hasActive
                   THEN /\ activeID' = id
                        /\ hasActive' = TRUE
                        /\ state' = s
                        /\ changes' = emitState(changes, s)
                        /\ resynced' = {}
                   ELSE /\ UNCHANGED <<activeID, hasActive, state, changes, resynced>>
    /\ UNCHANGED <<deviceVars, prevState, bcastVars, hubVars, clientVars, obsVars>>

\* openJoystick that makes every newly opened device the active one.
openJoystickTakeOver(id, opened) ==
    /\ ~panicked
    /\ runpc = "loop"
    /\ UNCHANGED <<lifeVars, callVars, pageVars, stalled>>
    /\ opened => id \in present
    /\ IF id \in joysticks \/ ~opened
       THEN /\ UNCHANGED <<joysticks, joystickOrder, activeID, hasActive, state, changes, resynced>>
       ELSE LET order == Append(joystickOrder, id)
                mapping == GetMapping(DeviceVendor(id), DeviceProduct(id))
                s == [state EXCEPT !.Connected = TRUE,
                                   !.Name = DeviceName(id),
                                   !.ControllerType = mapping.Name,
                                   !.PlayerIndex = IndexOf(order, id)]
            IN  /\ joysticks' = joysticks \cup {id}
                /\ joystickOrder' = order
                /\ IF TRUE
                   THEN /\ activeID' = id
                        /\ hasActive' = TRUE
                        /\ state' = s
                        /\ changes' = emitState(changes, s)
                        /\ resynced' = {}
                   ELSE /\ UNCHANGED <<activeID, hasActive, state, changes, resynced>>
    /\ UNCHANGED <<deviceVars, prevState, bcastVars, hubVars, clientVars, obsVars>>

\* openJoystick(id) for an EventJoystickAdded (or the start-up enumeration);
\* opened tells whether sdl.OpenJoystick succeeds.
openJoystick(id, opened) ==
    /\ ~panicked
    /\ runpc = "loop"
    /\ UNCHANGED <<lifeVars, callVars, pageVars, stalled>>
    /\ opened => id \in present
    /\ IF id \in joysticks \/ ~opened
       THEN /\ UNCHANGED <<joysticks, joystickOrder, activeID, hasActive, state, changes, resynced>>
       ELSE LET order == Append(joystickOrder, id)
                mapping == GetMapping(DeviceVendor(id), DeviceProduct(id))
                s == [state EXCEPT !.Connected = TRUE,
                                   !.Name = DeviceName(id),
                                   !.ControllerType = mapping.Name,
                                   !.PlayerIndex = IndexOf(order, id)]
            IN  /\ joysticks' = joysticks \cup {id}
                /\ joystickOrder' = order
                /\ IF ~hasActive
                   THEN /\ activeID' = id
                        /\ hasActive' = TRUE
                        /\ state' = s
                        /\ changes' = emitState(changes, s)
                        /\ resynced' = {}
                   ELSE /\ UNCHANGED <<activeID, hasActive, state, changes, resynced>>
    /\ UNCHANGED <<deviceVars, prevState, bcastVars, hubVars, clientVars, obsVars>>

\* removeJoystick(id) for an EventJoystickRemoved.
removeJoystick(id) ==
    /\ ~panicked
    /\ runpc = "loop"
    /\ UNCHANGED <<lifeVars, callVars, pageVars, stalled>>
    /\ id \notin present
    /\ IF id \notin joysticks
       THEN /\ UNCHANGED <<joysticks, joystickOrder, activeID, hasActive, state, changes, resynced>>
       ELSE LET rest == joysticks \ {id}
                order == RemoveFrom(joystickOrder, id)
            IN  /\ joysticks' = rest
                /\ joystickOrder' = order
                /\ IF ~(hasActive /\ activeID = id)
                   THEN /\ UNCHANGED <<activeID, hasActive, state, changes, resynced>>
                   ELSE IF rest = {}
                   THEN /\ hasActive' = FALSE
                        /\ activeID' = activeID
                        /\ state' = ZeroState
                        /\ changes' = emitState(changes, ZeroState)
                        /\ resynced' = {}
                   ELSE IF rest \cap present = {}
                   THEN \* no remaining joystick is connected: nothing is promoted
                        /\ hasActive' = FALSE
                        /\ UNCHANGED <<activeID, state, changes, resynced>>
                   ELSE \* the map's iteration order decides which one is promoted
                        \E next \in rest \cap present :
                            LET mapping == GetMapping(DeviceVendor(next), DeviceProduct(next))
                                s == [state EXCEPT !.Connected = TRUE,
                                                   !.Name = DeviceName(next),
                                                   !.ControllerType = mapping.Name,
                                                   !.PlayerIndex = IndexOf(order, next)]
                            IN  /\ activeID' = next
                                /\ hasActive' = TRUE
                                /\ state' = s
                                /\ changes' = emitState(changes, s)
                                /\ resynced' = {}
    /\ UNCHANGED <<deviceVars, prevState, bcastVars, hubVars, clientVars, obsVars>>

\* pollState: one poll of the active device.
pollState ==
    /\ ~panicked
    /\ runpc = "loop"
    /\ UNCHANGED <<lifeVars, callVars, pageVars, stalled>>
    /\ IF ~hasActive \/ activeID \notin joysticks \/ activeID \notin present
       THEN /\ UNCHANGED <<state, prevState, changes, resynced>>
       ELSE LET s == Assemble(activeID, hw[activeID],
                              GetPlayerIndex(joystickOrder, activeID, hasActive))
            IN  IF ~IsEmpty(ComputeDelta(prevState, s))
                THEN /\ state' = s
                     /\ prevState' = s
                     /\ changes' = emitState(changes, s)
                     /\ resynced' = {}
                ELSE /\ UNCHANGED <<state, prevState, changes, resynced>>
    /\ UNCHANGED <<deviceVars, joysticks, joystickOrder, activeID, hasActive,
                   bcastVars, hubVars, clientVars, obsVars>>

\* SetActiveByPlayerIndex(n): TRUE when n names a device of the connection order.
SetActiveOK(n) == n \in 1..Len(joystickOrder)

\* ------------------------------------------------------------------------
\* hub/message.go
\* ------------------------------------------------------------------------
\* The part of a snapshot that a DeltaChanges with fields d points to.
DeltaData(d, s) ==
    [Connected |-> IF "connected" \in d THEN s.Connected ELSE FALSE,
     ControllerType |-> IF "controllerType" \in d THEN s.ControllerType ELSE "",
     Name |-> IF "name" \in d THEN s.Name ELSE "",
     Buttons |-> IF "buttons" \in d THEN s.Buttons ELSE {},
     Dpad |-> IF "dpad" \in d THEN s.Dpad ELSE {},
     Sticks |-> IF "sticks" \in d THEN s.Sticks ELSE ZeroSticks,
     Triggers |-> IF "triggers" \in d THEN s.Triggers ELSE ZeroTriggers,
     PlayerIndex |-> 0]

\* Envelopes. origin is the PlayerIndex of the snapshot the envelope was
\* produced from (for a "full" it is data.PlayerIndex).
NewFullMessage(n, s) ==
    [type |-> "full", seq |-> n, data |-> s, changes |-> {},
     playerIndex |-> 0, origin |-> s.PlayerIndex]

NewDeltaMessage(n, d, s) ==
    [type |-> "delta", seq |-> n, data |-> DeltaData(d, s), changes |-> d,
     playerIndex |-> 0, origin |-> s.PlayerIndex]

NewPlayerSelectedMessage(n) ==
    [type |-> "player_selected", seq |-> 0, data |-> ZeroState, changes |-> {},
     playerIndex |-> n, origin |-> 0]

\* ------------------------------------------------------------------------
\* frontend/app.js
\* ------------------------------------------------------------------------
applyDelta(v, d, data) ==
    [Connected |-> IF "connected" \in d THEN data.Connected ELSE v.Connected,
     ControllerType |-> IF "controllerType" \in d THEN data.ControllerType ELSE v.ControllerType,
     Name |-> IF "name" \in d THEN data.Name ELSE v.Name,
     Buttons |-> IF "buttons" \in d THEN data.Buttons ELSE v.Buttons,
     Dpad |-> IF "dpad" \in d THEN data.Dpad ELSE v.Dpad,
     Sticks |-> IF "sticks" \in d THEN data.Sticks ELSE v.Sticks,
     Triggers |-> IF "triggers" \in d THEN data.Triggers ELSE v.Triggers,
     PlayerIndex |-> 0]

handleMessage(v, msg) ==
    IF msg.type = "full" THEN [msg.data EXCEPT !.PlayerIndex = 0]
    ELSE IF msg.type = "delta" THEN applyDelta(v, msg.changes, msg.data)
    ELSE v

\* ------------------------------------------------------------------------
\* hub/hub.go
\* ------------------------------------------------------------------------
\* The clients BroadcastToPlayer finds with a matching player index.
Matching(pidx) == {c \in clients : playerIndex[c] = pidx}

\* BroadcastToPlayer: a non-blocking send to every matching client; a client
\* whose queue is full gets an eviction goroutine.
BroadcastSend(msg, pidx) ==
    [c \in Clients |->
        IF c \in Matching(pidx) /\ Len(send[c]) < SendCap
        THEN Append(send[c], msg) ELSE send[c]]

\* Eviction of every client as soon as one matching queue is full.
BroadcastEvictAll(pidx) ==
    [c \in Clients |->
        IF \E d \in Matching(pidx) : Len(send[d]) >= SendCap
        THEN evict[c] + 1 ELSE evict[c]]

BroadcastEvict(pidx) ==
    [c \in Clients |->
        IF c \in Matching(pidx) /\ Len(send[c]) >= SendCap
        THEN evict[c] + 1 ELSE evict[c]]

FirstAfter(old, new, msg) ==
    [c \in Clients |->
        IF firstEnv[c] = "none" /\ Len(new[c]) > Len(old[c]) THEN msg.type
        ELSE firstEnv[c]]

\* Hub.Run receives from h.register: Register returns in the handler.
HubRecvRegister ==
    \E c \in Clients :
        /\ ~panicked
        /\ UNCHANGED <<lifeVars, callVars, pageVars, stalled>>
        /\ hubpc = "select"
        /\ cpc[c] = "register"
        /\ hubpc' = "register"
        /\ hubarg' = c
        /\ cpc' = [cpc EXCEPT ![c] = "sis_load"]
        /\ UNCHANGED <<deviceVars, readerVars, bcastVars, clients, evict, sisload, send,
                       sendClosed, playerIndex, wpc, rpc, confirm, view, panicked,
                       obsVars, resynced>>

\* Hub.Run, register case: h.clients[client] = true under the lock.
HubRegister ==
    /\ ~panicked
    /\ UNCHANGED <<lifeVars, callVars, pageVars, stalled>>
    /\ hubpc = "register"
    /\ clients' = clients \cup {hubarg}
    /\ hubpc' = "select"
    /\ hubarg' = "none"
    /\ UNCHANGED <<deviceVars, readerVars, bcastVars, evict, clientVars, obsVars, resynced>>

\* Hub.Run receives from h.unregister what an eviction goroutine sends.
HubRecvEvict ==
    \E c \in Clients :
        /\ ~panicked
        /\ UNCHANGED <<lifeVars, callVars, pageVars, stalled>>
        /\ hubpc = "select"
        /\ evict[c] > 0
        /\ evict' = [evict EXCEPT ![c] = @ - 1]
        /\ hubpc' = "unregister"
        /\ hubarg' = c
        /\ UNCHANGED <<deviceVars, readerVars, bcastVars, clients, clientVars, obsVars, resynced>>

\* Hub.Run receives from h.unregister what the read loop's deferred
\* Unregister sends; the read loop then closes the connection and ends.
HubRecvUnregister ==
    \E c \in Clients :
        /\ ~panicked
        /\ UNCHANGED <<lifeVars, callVars, pageVars, stalled>>
        /\ hubpc = "select"
        /\ rpc[c] = "unreg"
        /\ rpc' = [rpc EXCEPT ![c] = "done"]
        /\ hubpc' = "unregister"
        /\ hubarg' = c
        /\ UNCHANGED <<deviceVars, readerVars, bcastVars, clients, evict, cpc, sisload, send,
                       sendClosed, playerIndex, wpc, confirm, view, panicked, obsVars, resynced>>

\* The unregister case closing the queue whether or not the client is a member.
MemberAlways(c) == TRUE

\* Hub.Run, unregister case: if _, ok := h.clients[client]; ok.
StillMember(c) == c \in clients

\* The unregister case closing the queue of a member without deleting it
\* from the live set.
HubUnregisterNoDelete ==
    /\ ~panicked
    /\ UNCHANGED <<lifeVars, callVars, pageVars, stalled>>
    /\ hubpc = "unregister"
    /\ IF StillMember(hubarg)
       THEN IF sendClosed[hubarg]
            THEN panicked' = TRUE /\ UNCHANGED sendClosed
            ELSE sendClosed' = [sendClosed EXCEPT ![hubarg] = TRUE] /\ UNCHANGED panicked
       ELSE UNCHANGED <<sendClosed, panicked>>
    /\ unregs' = [unregs EXCEPT ![hubarg] = @ + 1]
    /\ hubpc' = "select"
    /\ hubarg' = "none"
    /\ UNCHANGED <<deviceVars, readerVars, bcastVars, clients, evict, cpc, sisload, send,
                   playerIndex, wpc, rpc, confirm, view, builtMax, deltaRun, firstEnv,
                   skipped, resynced>>

\* Hub.Run, unregister case: delete and close(client.send) if still a member.
HubUnregister ==
    /\ ~panicked
    /\ UNCHANGED <<lifeVars, callVars, pageVars, stalled>>
    /\ hubpc = "unregister"
    /\ IF StillMember(hubarg)
       THEN /\ clients' = clients \ {hubarg}
            /\ IF sendClosed[hubarg]
               THEN panicked' = TRUE /\ UNCHANGED sendClosed
               ELSE sendClosed' = [sendClosed EXCEPT ![hubarg] = TRUE] /\ UNCHANGED panicked
       ELSE UNCHANGED <<clients, sendClosed, panicked>>
    /\ unregs' = [unregs EXCEPT ![hubarg] = @ + 1]
    /\ hubpc' = "select"
    /\ hubarg' = "none"
    /\ UNCHANGED <<deviceVars, readerVars, bcastVars, evict, cpc, sisload, send,
                   playerIndex, wpc, rpc, confirm, view, builtMax, deltaRun, firstEnv,
                   skipped, resynced>>

\* ------------------------------------------------------------------------
\* hub/broadcast.go
\* ------------------------------------------------------------------------
\* seq++ operations that were started and have not yet stored.
InFlight ==
    (IF bpc \in {"load", "store"} THEN 1 ELSE 0)
    + Cardinality({c \in Clients : cpc[c] \in {"register", "sis_load", "sis_store"}})

\* The count test off by one: a full sync only after deltaCountSync deltas.
FullSyncLate(n) == n > deltaCountSync

\* Run's test for a count-triggered full sync, on the incremented deltaCount.
FullSyncDue(n) == n >= deltaCountSync

\* Run going on to send whatever the delta holds.
ContinueNever(delta) == FALSE

\* Run's test that ends the iteration: if delta.IsEmpty() { continue }.
ContinueOnEmpty(delta) == IsEmpty(delta)

\* Run, case state := <-b.changes: the delta against lastState is computed
\* and lastState replaced; an empty delta ends the iteration.
BRecv(cap) ==
    /\ ~panicked
    /\ UNCHANGED <<lifeVars, callVars, pageVars, stalled>>
    /\ bpc = "select"
    /\ Len(changes) > 0
    /\ seq + InFlight < cap
    /\ LET s == Head(changes)
           delta == ComputeDelta(lastState, s)
       IN  /\ changes' = Tail(changes)
           /\ lastState' = s
           /\ IF ContinueOnEmpty(delta)
              THEN /\ skipped' = TRUE
                   /\ UNCHANGED <<bpc, bsrc, bdelta>>
              ELSE /\ bpc' = "load"
                   /\ bsrc' = "change"
                   /\ bdelta' = delta
                   /\ UNCHANGED skipped
    /\ UNCHANGED <<deviceVars, joysticks, joystickOrder, activeID, hasActive, state,
                   prevState, seq, deltaCount, bload, hubVars, clientVars,
                   builtMax, deltaRun, firstEnv, unregs, resynced>>

\* Run, case <-ticker.C.
BTick(cap) ==
    /\ ~panicked
    /\ UNCHANGED <<lifeVars, callVars, pageVars, stalled>>
    /\ bpc = "select"
    /\ seq + InFlight < cap
    /\ IF lastState.Connected
       THEN /\ bpc' = "load"
            /\ bsrc' = "tick"
       ELSE UNCHANGED <<bpc, bsrc>>
    /\ UNCHANGED <<deviceVars, readerVars, lastState, seq, deltaCount, bdelta, bload,
                   hubVars, clientVars, obsVars, resynced>>

\* b.seq++ in Run is a load and a store of a variable SendInitialState
\* writes too, with no lock.
BSeqLoad ==
    /\ ~panicked
    /\ UNCHANGED <<lifeVars, callVars, pageVars, stalled>>
    /\ bpc = "load"
    /\ bload' = seq
    /\ bpc' = "store"
    /\ UNCHANGED <<deviceVars, readerVars, lastState, seq, deltaCount, bsrc, bdelta,
                   hubVars, clientVars, obsVars, resynced>>

BSeqStore ==
    /\ ~panicked
    /\ UNCHANGED <<lifeVars, callVars, pageVars, stalled>>
    /\ bpc = "store"
    /\ seq' = bload + 1
    /\ bpc' = "send"
    /\ UNCHANGED <<deviceVars, readerVars, lastState, deltaCount, bsrc, bdelta, bload,
                   hubVars, clientVars, obsVars, resynced>>

\* sendFull / sendDelta: the envelope is built with the seq read now and
\* handed to BroadcastToPlayer.
BSend ==
    /\ ~panicked
    /\ UNCHANGED <<lifeVars, callVars, pageVars, stalled>>
    /\ bpc = "send"
    /\ LET count == deltaCount + 1
           full == bsrc = "tick" \/ FullSyncDue(count)
           msg == IF full THEN NewFullMessage(seq, lastState)
                  ELSE NewDeltaMessage(seq, bdelta, lastState)
           pidx == lastState.PlayerIndex
           q == BroadcastSend(msg, pidx)
       IN  /\ send' = q
           /\ evict' = BroadcastEvict(pidx)
           /\ deltaCount' = IF bsrc = "tick" THEN deltaCount
                            ELSE IF FullSyncDue(count) THEN 0 ELSE count
           /\ deltaRun' = IF bsrc = "tick" THEN deltaRun
                          ELSE IF full THEN 0 ELSE deltaRun + 1
           /\ builtMax' = IF seq > builtMax THEN seq ELSE builtMax
           /\ firstEnv' = FirstAfter(send, q, msg)
           /\ resynced' = IF bsrc = "tick"
                          THEN {c \in Matching(pidx) : Len(send[c]) < SendCap}
                          ELSE resynced
    /\ bpc' = "select"
    /\ bsrc' = "none"
    /\ bdelta' = {}
    /\ UNCHANGED <<deviceVars, readerVars, lastState, seq, bload, clients, hubpc, hubarg,
                   cpc, sisload, sendClosed, playerIndex, wpc, rpc, confirm, view, panicked,
                   skipped, unregs>>

\* ------------------------------------------------------------------------
\* server/handler.go and hub/client.go
\* ------------------------------------------------------------------------
\* handleWebSocket: the upgrade succeeded, NewClient, and h.Register(client)
\* is waiting for Hub.Run.
Connect(cap, cs) ==
    \E c \in cs :
        /\ ~panicked
        /\ UNCHANGED <<lifeVars, callVars, pageVars, stalled>>
        /\ cpc[c] = "new"
        /\ seq + InFlight < cap
        /\ cpc' = [cpc EXCEPT ![c] = "register"]
        /\ UNCHANGED <<deviceVars, readerVars, bcastVars, hubVars, sisload, send, sendClosed,
                       playerIndex, wpc, rpc, confirm, view, panicked, obsVars, resynced>>

\* SendInitialState: b.seq++, from the handler's goroutine.
SISLoad ==
    \E c \in Clients :
        /\ ~panicked
        /\ UNCHANGED <<lifeVars, callVars, pageVars, stalled>>
        /\ cpc[c] = "sis_load"
        /\ sisload' = [sisload EXCEPT ![c] = seq]
        /\ cpc' = [cpc EXCEPT ![c] = "sis_store"]
        /\ UNCHANGED <<deviceVars, readerVars, bcastVars, hubVars, send, sendClosed,
                       playerIndex, wpc, rpc, confirm, view, panicked, obsVars, resynced>>

SISStore ==
    \E c \in Clients :
        /\ ~panicked
        /\ UNCHANGED <<lifeVars, callVars, pageVars, stalled>>
        /\ cpc[c] = "sis_store"
        /\ seq' = sisload[c] + 1
        /\ cpc' = [cpc EXCEPT ![c] = "sis_send"]
        /\ UNCHANGED <<deviceVars, readerVars, lastState, deltaCount, bpc, bsrc, bdelta, bload,
                       hubVars, sisload, send, sendClosed, playerIndex, wpc, rpc, confirm,
                       view, panicked, obsVars, resynced>>

\* SendInitialState: NewFullMessage(b.seq, &b.lastState) and the non-blocking
\* send on c.send; the handler then starts WritePump and ReadPumpWithHandler.
\* A send on a closed c.send panics in the handler's goroutine, where
\* net/http recovers it: the handler ends there and starts no loop.
SISSend ==
    \E c \in Clients :
        /\ ~panicked
        /\ UNCHANGED <<lifeVars, callVars, pageVars, stalled>>
        /\ cpc[c] = "sis_send"
        /\ LET msg == NewFullMessage(seq, lastState)
               q == [send EXCEPT ![c] = IF Len(@) < SendCap THEN Append(@, msg) ELSE @]
           IN  /\ IF sendClosed[c]
                  THEN /\ cpc' = [cpc EXCEPT ![c] = "aborted"]
                       /\ UNCHANGED <<send, firstEnv, wpc, rpc>>
                  ELSE /\ send' = q
                       /\ firstEnv' = FirstAfter(send, q, msg)
                       /\ cpc' = [cpc EXCEPT ![c] = "running"]
                       /\ wpc' = [wpc EXCEPT ![c] = "run"]
                       /\ rpc' = [rpc EXCEPT ![c] = "run"]
               /\ builtMax' = IF seq > builtMax THEN seq ELSE builtMax
        /\ UNCHANGED <<deviceVars, readerVars, bcastVars, hubVars, sisload, sendClosed,
                       playerIndex, confirm, view, panicked, deltaRun, skipped, unregs,
                       resynced>>

\* WritePump: the next queued envelope is written to the connection; with
\* browser, the page's handleMessage applies it to view[c].
WritePump(browser) ==
    \E c \in Clients :
        /\ ~panicked
        /\ UNCHANGED <<lifeVars, callVars, pageVars, stalled>>
        /\ wpc[c] = "run"
        /\ ~stalled[c]
        /\ Len(send[c]) > 0
        /\ send' = [send EXCEPT ![c] = Tail(@)]
        /\ view' = IF browser THEN [view EXCEPT ![c] = handleMessage(@, Head(send[c]))]
                   ELSE view
        /\ UNCHANGED <<deviceVars, readerVars, bcastVars, hubVars, cpc, sisload, sendClosed,
                       playerIndex, wpc, rpc, confirm, panicked, obsVars, resynced>>

\* WritePump ends: the queue is closed and drained, or a write failed on a
\* connection that is gone.
WritePumpEnd ==
    \E c \in Clients :
        /\ ~panicked
        /\ UNCHANGED <<lifeVars, callVars, pageVars, stalled>>
        /\ wpc[c] = "run"
        /\ \/ sendClosed[c] /\ Len(send[c]) = 0
           \/ rpc[c] \in {"unreg", "done"}
        /\ wpc' = [wpc EXCEPT ![c] = "done"]
        /\ UNCHANGED <<deviceVars, readerVars, bcastVars, hubVars, cpc, sisload, send,
                       sendClosed, playerIndex, rpc, confirm, view, panicked, obsVars, resynced>>

\* A read loop that switches and confirms whatever index is requested.
ReadSelectAlways(cs, ns) ==
    \E c \in cs, n \in ns :
        /\ ~panicked
        /\ UNCHANGED <<lifeVars, callVars, pageVars, stalled>>
        /\ rpc[c] = "run"
        /\ confirm' = [confirm EXCEPT ![c] = n]
        /\ IF n \in DOMAIN joystickOrder \/ n > Len(joystickOrder)
           THEN /\ activeID' = IF n \in DOMAIN joystickOrder THEN joystickOrder[n] ELSE activeID
                /\ hasActive' = TRUE
                /\ playerIndex' = [playerIndex EXCEPT ![c] = n]
                /\ rpc' = [rpc EXCEPT ![c] = "confirm"]
           ELSE UNCHANGED <<activeID, hasActive, playerIndex, rpc>>
        /\ UNCHANGED <<deviceVars, joysticks, joystickOrder, state, prevState, changes,
                       bcastVars, hubVars, cpc, sisload, send, sendClosed, wpc, view,
                       panicked, obsVars, resynced>>

\* A switch that always activates the first device of the connection order.
ReadSelectFirst(cs, ns) ==
    \E c \in cs, n \in ns :
        /\ ~panicked
        /\ UNCHANGED <<lifeVars, callVars, pageVars, stalled>>
        /\ rpc[c] = "run"
        /\ confirm' = [confirm EXCEPT ![c] = n]
        /\ IF SetActiveOK(n)
           THEN /\ activeID' = joystickOrder[1]
                /\ hasActive' = TRUE
                /\ playerIndex' = [playerIndex EXCEPT ![c] = n]
                /\ rpc' = [rpc EXCEPT ![c] = "confirm"]
           ELSE UNCHANGED <<activeID, hasActive, playerIndex, rpc>>
        /\ UNCHANGED <<deviceVars, joysticks, joystickOrder, state, prevState, changes,
                       bcastVars, hubVars, cpc, sisload, send, sendClosed, wpc, view,
                       panicked, obsVars, resynced>>

\* ReadPumpWithHandler: a select_player message with player index n.
\* SetActiveByPlayerIndex(n) switches the Reader's active device when n is
\* in range; the client then subscribes to n and a confirmation is queued.
\* clientMsg.PlayerIndex (confirm) holds the requested index either way.
ReadSelect(cs, ns) ==
    \E c \in cs, n \in ns :
        /\ ~panicked
        /\ UNCHANGED <<lifeVars, callVars, pageVars, stalled>>
        /\ rpc[c] = "run"
        /\ confirm' = [confirm EXCEPT ![c] = n]
        /\ IF SetActiveOK(n)
           THEN /\ activeID' = joystickOrder[n]
                /\ hasActive' = TRUE
                /\ playerIndex' = [playerIndex EXCEPT ![c] = n]
                /\ rpc' = [rpc EXCEPT ![c] = "confirm"]
           ELSE UNCHANGED <<activeID, hasActive, playerIndex, rpc>>
        /\ UNCHANGED <<deviceVars, joysticks, joystickOrder, state, prevState, changes,
                       bcastVars, hubVars, cpc, sisload, send, sendClosed, wpc, view,
                       panicked, obsVars, resynced>>

\* ReadPumpWithHandler: c.send <- data, a blocking send of the confirmation.
ReadConfirm ==
    \E c \in Clients :
        /\ ~panicked
        /\ UNCHANGED <<lifeVars, callVars, pageVars, stalled>>
        /\ rpc[c] = "confirm"
        /\ sendClosed[c] \/ Len(send[c]) < SendCap
        /\ IF sendClosed[c]
           THEN panicked' = TRUE /\ UNCHANGED send
           ELSE /\ send' = [send EXCEPT ![c] = Append(@, NewPlayerSelectedMessage(confirm[c]))]
                /\ UNCHANGED panicked
        /\ rpc' = [rpc EXCEPT ![c] = "run"]
        /\ UNCHANGED <<deviceVars, readerVars, bcastVars, hubVars, cpc, sisload, sendClosed,
                       playerIndex, wpc, confirm, view, obsVars, resynced>>

\* ReadPumpWithHandler: ReadMessage returns a message that json.Unmarshal
\* rejects, or one whose type is not select_player.
ReadIgnored(cs) ==
    \E c \in cs, kind \in {"bad_json", "other_type"} :
        /\ ~panicked
        /\ UNCHANGED <<lifeVars, callVars, pageVars, stalled>>
        /\ rpc[c] = "run"
        /\ rpc' = [rpc EXCEPT ![c] = kind]
        /\ UNCHANGED <<deviceVars, readerVars, bcastVars, hubVars, cpc, sisload, send,
                       sendClosed, playerIndex, wpc, confirm, view, panicked, obsVars, resynced>>

\* A read loop that gives up on a message it cannot parse.
ReadContinueFatal ==
    \E c \in Clients :
        /\ ~panicked
        /\ UNCHANGED <<lifeVars, callVars, pageVars, stalled>>
        /\ rpc[c] \in {"bad_json", "other_type"}
        /\ rpc' = [rpc EXCEPT ![c] = IF @ = "bad_json" THEN "unreg" ELSE "run"]
        /\ UNCHANGED <<deviceVars, readerVars, bcastVars, hubVars, cpc, sisload, send,
                       sendClosed, playerIndex, wpc, confirm, view, panicked, obsVars, resynced>>

\* ReadPumpWithHandler: `continue` after the parse error, or the switch with
\* no matching case; the loop goes back to ReadMessage.
ReadContinue ==
    \E c \in Clients :
        /\ ~panicked
        /\ UNCHANGED <<lifeVars, callVars, pageVars, stalled>>
        /\ rpc[c] \in {"bad_json", "other_type"}
        /\ rpc' = [rpc EXCEPT ![c] = "run"]
        /\ UNCHANGED <<deviceVars, readerVars, bcastVars, hubVars, cpc, sisload, send,
                       sendClosed, playerIndex, wpc, confirm, view, panicked, obsVars, resynced>>

\* ReadPumpWithHandler: ReadMessage fails (the peer went away or the
\* connection was closed); the deferred Unregister waits for Hub.Run.
ReadError ==
    \E c \in Clients :
        /\ ~panicked
        /\ UNCHANGED <<lifeVars, callVars, pageVars, stalled>>
        /\ rpc[c] = "run"
        /\ rpc' = [rpc EXCEPT ![c] = "unreg"]
        /\ UNCHANGED <<deviceVars, readerVars, bcastVars, hubVars, cpc, sisload, send,
                       sendClosed, playerIndex, wpc, confirm, view, panicked, obsVars, resynced>>

\* ------------------------------------------------------------------------
\* main.go and Reader.Run: shutdown
\* ------------------------------------------------------------------------
\* The ways main's select is woken: sigCh, shutdownRequested, serverErrCh,
\* windowsCtrlCh.
Causes == {"signal", "tray", "server_error", "console"}

\* main: one case of the select fires and cancel() is called; main then
\* waits in <-readerDone.
Cancel ==
    \E cause \in Causes :
        /\ ~panicked
        /\ mainpc = "select"
        /\ ctxDone' = TRUE
        /\ mainpc' = "wait_reader"
        /\ UNCHANGED <<deviceVars, readerVars, bcastVars, hubVars, clientVars, obsVars,
                       resynced, runpc, callVars, pageVars, stalled>>

\* A Run that returns on cancellation with the device handles left open.
RunDoneNoClose ==
    /\ ~panicked
    /\ runpc = "loop"
    /\ ctxDone
    /\ runpc' = "returned"
    /\ UNCHANGED <<deviceVars, readerVars, bcastVars, hubVars, clientVars, obsVars,
                   resynced, ctxDone, mainpc, callVars, pageVars, stalled>>

\* Run, case <-ctx.Done(): closeAll closes every handle and empties the
\* open-device map, then Run returns.
RunDone ==
    /\ ~panicked
    /\ runpc = "loop"
    /\ ctxDone
    /\ joysticks' = {}
    /\ runpc' = "returned"
    /\ UNCHANGED <<deviceVars, joystickOrder, activeID, hasActive, state, prevState,
                   changes, bcastVars, hubVars, clientVars, obsVars, resynced,
                   ctxDone, mainpc, callVars, pageVars, stalled>>

\* main's goroutine around reader.Run: close(readerDone).
CloseReaderDone ==
    /\ ~panicked
    /\ runpc = "returned"
    /\ runpc' = "done"
    /\ UNCHANGED <<deviceVars, readerVars, bcastVars, hubVars, clientVars, obsVars,
                   resynced, ctxDone, mainpc, callVars, pageVars, stalled>>

\* main: <-readerDone returns and srv.Shutdown is called.
MainShutdown ==
    /\ ~panicked
    /\ mainpc = "wait_reader"
    /\ runpc = "done"
    /\ mainpc' = "shutdown"
    /\ UNCHANGED <<deviceVars, readerVars, bcastVars, hubVars, clientVars, obsVars,
                   resynced, ctxDone, runpc, callVars, pageVars, stalled>>

\* The steps of the shutdown path.
StopStep ==
    \/ RunDone
    \/ CloseReaderDone
    \/ MainShutdown

\* ------------------------------------------------------------------------
\* Initial state: NewReader, NewHub, NewBroadcaster; no connection yet.
\* ------------------------------------------------------------------------
ProgramInit ==
    /\ present = {}
    /\ hw = [id \in Devices |-> RestSample]
    /\ ReaderInit
    /\ lastState = ZeroState
    /\ seq = 0
    /\ deltaCount = 0
    /\ bpc = "select"
    /\ bsrc = "none"
    /\ bdelta = {}
    /\ bload = 0
    /\ clients = {}
    /\ hubpc = "select"
    /\ hubarg = "none"
    /\ evict = [c \in Clients |-> 0]
    /\ cpc = [c \in Clients |-> "new"]
    /\ sisload = [c \in Clients |-> 0]
    /\ send = [c \in Clients |-> <<>>]
    /\ sendClosed = [c \in Clients |-> FALSE]
    /\ playerIndex = [c \in Clients |-> 1]
    /\ wpc = [c \in Clients |-> "off"]
    /\ rpc = [c \in Clients |-> "off"]
    /\ confirm = [c \in Clients |-> 0]
    /\ view = [c \in Clients |-> ZeroState]
    /\ panicked = FALSE
    /\ builtMax = 0
    /\ deltaRun = 0
    /\ firstEnv = [c \in Clients |-> "none"]
    /\ skipped = FALSE
    /\ unregs = [c \in Clients |-> 0]
    /\ resynced = {}
    /\ ctxDone = FALSE
    /\ runpc = "loop"
    /\ mainpc = "select"
    /\ stalled = [c \in Clients |-> FALSE]

\* No call of a pure function is under way.
NoCall == [done |-> FALSE, val |-> <<>>]

\* app.js's top-level declarations, before init() has run.
initialReconnectDelay == 1000
maxReconnectDelay == 10000

PageDeclared ==
    /\ selectedPlayerIndex = 1
    /\ ws = "none"
    /\ wsSent = <<>>
    /\ timers = 0
    /\ reconnectDelay = initialReconnectDelay
    /\ sockets = 0

\* No page is open.
NoPage == PageDeclared /\ urlP = ""

Init ==
    /\ ProgramInit
    /\ arg = <<>>
    /\ res = NoCall
    /\ NoPage

\* The Reader's loop: processEvents and pollState.
ReaderStep ==
    \/ \E id \in Devices, opened \in BOOLEAN : openJoystick(id, opened)
    \/ \E id \in Devices : removeJoystick(id)
    \/ pollState

HubStep ==
    \/ HubRecvRegister
    \/ HubRegister
    \/ HubRecvEvict
    \/ HubRecvUnregister
    \/ HubUnregister

BroadcasterStep(cap) ==
    \/ BRecv(cap)
    \/ BTick(cap)
    \/ BSeqLoad
    \/ BSeqStore
    \/ BSend

\* The Reader and the Broadcaster's Run with no connection: one device,
\* the stick samples.
SpecReader ==
    /\ Init
    /\ [][
        \/ Plug({1})
        \/ Unplug
        \/ HwInput({RestSample, SampleHalf, SampleJitter})
        \/ ReaderStep
        \/ BroadcasterStep(MaxSeq)
       ]_vars

\* One device that stays plugged and one connection that stays open and
\* sends nothing; with browser, the page applies what it receives.
OneStep(cap, browser) ==
    \/ Plug({1})
    \/ HwInput(FewSamples)
    \/ \E id \in Devices, opened \in BOOLEAN : openJoystick(id, opened)
    \/ pollState
    \/ BroadcasterStep(cap)
    \/ Connect(cap, {"c1"})
    \/ HubRecvRegister
    \/ HubRegister
    \/ HubRecvEvict
    \/ HubUnregister
    \/ SISLoad
    \/ SISStore
    \/ SISSend
    \/ WritePump(browser)
    \/ WritePumpEnd

SpecOne == Init /\ [][OneStep(MaxSeq, FALSE)]_vars

SpecView == Init /\ [][OneStep(MaxSeqView, TRUE)]_vars

\* The Reader and Run for a long series of changes of one device; the timer
\* ticks only early on.
SpecCount ==
    /\ Init
    /\ [][
        \/ Plug({1})
        \/ HwInput(FewSamples)
        \/ \E id \in Devices, opened \in BOOLEAN : openJoystick(id, opened)
        \/ pollState
        \/ BRecv(MaxSeqCount)
        \/ BTick(MaxSeq)
        \/ BSeqLoad
        \/ BSeqStore
        \/ BSend
       ]_vars

\* Two devices that stay plugged and two connections; the browser of the
\* first one selects player 2.  The resync timer does not tick.
SpecPlayers ==
    /\ Init
    /\ [][
        \/ Plug({1, 2})
        \/ \E id \in Devices, opened \in BOOLEAN : openJoystick(id, opened)
        \/ pollState
        \/ BRecv(MaxSeqView)
        \/ BSeqLoad
        \/ BSeqStore
        \/ BSend
        \/ Connect(MaxSeqView, Clients)
        \/ HubRecvRegister
        \/ HubRegister
        \/ SISLoad
        \/ SISStore
        \/ SISSend
        \/ ReadSelect({"c1"}, {2})
        \/ ReadConfirm
       ]_vars

\* One device at rest and one connection whose browser sends nothing and
\* may go away at any time.
SpecHub ==
    /\ Init
    /\ [][
        \/ Plug({1})
        \/ \E id \in Devices, opened \in BOOLEAN : openJoystick(id, opened)
        \/ pollState
        \/ BroadcasterStep(MaxSeqHub)
        \/ Connect(MaxSeqHub, {"c1"})
        \/ HubStep
        \/ SISLoad
        \/ SISStore
        \/ SISSend
        \/ WritePump(FALSE)
        \/ WritePumpEnd
        \/ ReadError
       ]_vars

\* One device that comes and goes and two connections that stay subscribed
\* to player 1 and whose browsers read nothing; the resync timer does not
\* tick and no unregister request is served yet.
SpecCast ==
    /\ Init
    /\ [][
        \/ Plug({1})
        \/ Unplug
        \/ \E id \in Devices, opened \in BOOLEAN : openJoystick(id, opened)
        \/ \E id \in Devices : removeJoystick(id)
        \/ BRecv(MaxSeqCast)
        \/ BSeqLoad
        \/ BSeqStore
        \/ BSend
        \/ Connect(MaxSeqCast, Clients)
        \/ HubRecvRegister
        \/ HubRegister
        \/ SISLoad
        \/ SISStore
        \/ SISSend
       ]_vars

\* One device and two connections whose browsers read nothing and send
\* select_player requests and other messages; a connection may go away.
SpecSelect ==
    /\ Init
    /\ [][
        \/ Plug({1})
        \/ \E id \in Devices, opened \in BOOLEAN : openJoystick(id, opened)
        \/ BRecv(MaxSeqSel)
        \/ BSeqLoad
        \/ BSeqStore
        \/ BSend
        \/ Connect(MaxSeqSel, Clients)
        \/ HubStep
        \/ SISLoad
        \/ SISStore
        \/ SISSend
        \/ ReadSelect(Clients, {1, 99})
        \/ ReadConfirm
        \/ ReadIgnored(Clients)
        \/ ReadContinue
        \/ ReadError
       ]_vars

\* The Reader alone with three devices that come and go, a button held or
\* not; nothing takes snapshots off the change channel.
SpecDevices ==
    /\ Init
    /\ [][
        \/ Plug(Devices)
        \/ Unplug
        \/ HwInput(FewSamples)
        \/ ReaderStep
       ]_vars

\* The Reader alone with two devices that come and go, a button held or
\* not; nothing takes snapshots off the change channel.
SpecPair ==
    /\ Init
    /\ [][
        \/ Plug({1, 2})
        \/ Unplug
        \/ HwInput(FewSamples)
        \/ ReaderStep
       ]_vars

\* The whole program until main calls srv.Shutdown: one device, one
\* connection whose browser reads nothing and sends select_player 1.
SpecStop ==
    /\ Init
    /\ [][
        \/ Plug({1})
        \/ Unplug
        \/ ReaderStep
        \/ BRecv(MaxSeqStop)
        \/ BSeqLoad
        \/ BSeqStore
        \/ BSend
        \/ Connect(MaxSeqStop, {"c1"})
        \/ HubRecvRegister
        \/ HubRegister
        \/ HubRecvEvict
        \/ HubUnregister
        \/ SISLoad
        \/ SISStore
        \/ SISSend
        \/ ReadSelect({"c1"}, {1})
        \/ ReadConfirm
        \/ Cancel
        \/ StopStep
       ]_vars

\* ------------------------------------------------------------------------
\* Calls of the package's pure functions
\* ------------------------------------------------------------------------
\* How many times a caller repeats one call.
MaxCalls == 2

\* The frame of a call: no variable of the running program changes.
Program == <<deviceVars, readerVars, bcastVars, hubVars, clientVars, obsVars, resynced, lifeVars>>

Returned(v) == [done |-> TRUE, val |-> Append(res.val, v)]

\* Vendor and product identifiers: those of the known-device table and
\* identifiers outside it.
Vendors == {1118, 1356, 1406, 9999, 0}
Products == {654, 767, 2834, 2835, 3302, 2508, 1476, 8201, 1, 0}

InitMapping ==
    /\ ProgramInit
    /\ arg \in [vendorID : Vendors, productID : Products, build : Builds]
    /\ res = NoCall
    /\ NoPage

CallGetMapping ==
    /\ Len(res.val) < MaxCalls
    /\ res' = Returned(IF arg.build = "generic_fallback"
                       THEN GetMapping(arg.vendorID, arg.productID)
                       ELSE GetMappingXbox(arg.vendorID, arg.productID))
    /\ UNCHANGED <<Program, pageVars, stalled, arg>>

SpecMapping == InitMapping /\ [][CallGetMapping]_vars

\* Raw int16 values: the extremes, their neighbours, zero and its
\* neighbours, and the middle of each half.
Raws == {MinInt16, MinInt16 + 1, -16384, -1, 0, 1, 16384, MaxInt16 - 1, MaxInt16}

\* The functions called so far.
Called == {res.val[i].fn : i \in 1..Len(res.val)}

InitNormalize ==
    /\ ProgramInit
    /\ arg \in [raw : Raws, rawMin : Raws, rawMax : Raws, Invert : BOOLEAN]
    /\ res = NoCall
    /\ NoPage

\* NormalizeAxis(raw), and the value pollState stores for a stick axis
\* read as raw.
CallNormalizeAxis ==
    /\ "NormalizeAxis" \notin Called
    /\ res' = Returned([fn |-> "NormalizeAxis",
                        v |-> NormalizeAxis(arg.raw),
                        stored |-> AxisValue([axes |-> [t \in {"left_x"} |-> arg.raw]],
                                             [Target |-> "left_x", IsTrigger |-> FALSE,
                                              Invert |-> arg.Invert,
                                              RawMin |-> 0, RawMax |-> 0])])
    /\ UNCHANGED <<Program, pageVars, stalled, arg>>

\* NormalizeTrigger(raw, rawMin, rawMax), and the value pollState stores
\* for a trigger axis of that range read as raw.
CallNormalizeTrigger ==
    /\ "NormalizeTrigger" \notin Called
    /\ res' = Returned([fn |-> "NormalizeTrigger",
                        v |-> NormalizeTrigger(arg.raw, arg.rawMin, arg.rawMax),
                        stored |-> AxisValue([axes |-> [t \in {"lt"} |-> arg.raw]],
                                             [Target |-> "lt", IsTrigger |-> TRUE,
                                              Invert |-> FALSE,
                                              RawMin |-> arg.rawMin,
                                              RawMax |-> arg.rawMax])])
    /\ UNCHANGED <<Program, pageVars, stalled, arg>>

SpecNormalize == InitNormalize /\ [][CallNormalizeAxis \/ CallNormalizeTrigger]_vars

\* Snapshots to diff.  Analog values are 0, 0.010 and 0.011 in the new
\* snapshots and 0 or 0.020 in the old ones, so that components differ by
\* less than, exactly and more than analogThreshold.
Busy ==
    [Connected |-> TRUE, ControllerType |-> "xbox", Name |-> "Xbox 360 Controller",
     Buttons |-> {"a"}, Dpad |-> {"up"},
     Sticks |-> [lx |-> 2 * analogThreshold, ly |-> 2 * analogThreshold, lp |-> TRUE,
                 rx |-> 2 * analogThreshold, ry |-> 2 * analogThreshold, rp |-> TRUE],
     Triggers |-> [lt |-> 2 * analogThreshold, rt |-> 2 * analogThreshold],
     PlayerIndex |-> 0]
Analogs == {0, analogThreshold, analogThreshold + 1}
DeltaOlds == {ZeroState, Busy}
DeltaNews ==
    [Connected : BOOLEAN, ControllerType : {"", "xbox"},
     Name : {"", "Xbox 360 Controller"}, Buttons : {{}, {"a"}}, Dpad : {{}, {"up"}},
     Sticks : [lx : Analogs, ly : Analogs, lp : BOOLEAN,
               rx : Analogs, ry : Analogs, rp : BOOLEAN],
     Triggers : [lt : Analogs, rt : Analogs], PlayerIndex : {0}]

InitDelta ==
    /\ ProgramInit
    /\ \/ arg \in [old : DeltaOlds, new : DeltaNews]
       \/ \E s \in DeltaNews \cup DeltaOlds : arg = [old |-> s, new |-> s]
    /\ res = NoCall
    /\ NoPage

CallComputeDelta ==
    /\ ~res.done
    /\ LET d == ComputeDelta(arg.old, arg.new)
       IN  res' = Returned([present |-> d,
                            data |-> [f \in d |-> DeltaField(arg.new, f)],
                            IsEmpty |-> IsEmpty(d)])
    /\ UNCHANGED <<Program, pageVars, stalled, arg>>

SpecDelta == InitDelta /\ [][CallComputeDelta]_vars

\* Values and thresholds of ApplyDeadzone: around zero, around the Reader's
\* deadzone and at the ends of the normalised range.
DeadzoneValues ==
    {-One, -deadzone - 1, -deadzone, -deadzone + 1, -1, 0, 1,
     deadzone - 1, deadzone, deadzone + 1, 2 * deadzone, One}
Thresholds == {0, 1, deadzone, One}

InitDeadzone ==
    /\ ProgramInit
    /\ arg \in [v : DeadzoneValues, threshold : Thresholds]
    /\ res = NoCall
    /\ NoPage

\* ApplyDeadzone(v, threshold)
CallApplyDeadzone ==
    /\ ~res.done
    /\ res' = Returned(ApplyDeadzone(arg.v, arg.threshold))
    /\ UNCHANGED <<Program, pageVars, stalled, arg>>

\* ApplyDeadzone applied to what the last call returned.
CallApplyDeadzoneAgain ==
    /\ res.done
    /\ Len(res.val) < MaxCalls
    /\ res' = Returned(ApplyDeadzone(res.val[Len(res.val)], arg.threshold))
    /\ UNCHANGED <<Program, pageVars, stalled, arg>>

SpecDeadzone == InitDeadzone /\ [][CallApplyDeadzone \/ CallApplyDeadzoneAgain]_vars

\* One connection whose browser applies what it receives, opened and
\* registered before the device is attached; the device's stick creeps.  The resync timer
\* does not tick.
PlugConnected == cpc["c1"] = "running" /\ "c1" \in clients /\ Plug({1})

SpecDrift ==
    /\ Init
    /\ [][
        \/ PlugConnected
        \/ HwInput({SampleHalf, SampleCreepA, SampleCreep})
        \/ \E id \in Devices, opened \in BOOLEAN : openJoystick(id, opened)
        \/ pollState
        \/ BRecv(MaxSeqDrift)
        \/ BSeqLoad
        \/ BSeqStore
        \/ BSend
        \/ Connect(MaxSeqDrift, {"c1"})
        \/ HubRecvRegister
        \/ HubRegister
        \/ HubRecvEvict
        \/ HubUnregister
        \/ SISLoad
        \/ SISStore
        \/ SISSend
        \/ WritePump(TRUE)
       ]_vars

\* The peer of a running connection stops reading and keeps the connection
\* open: from now on c.conn.WriteMessage, which has no deadline, blocks.
Stall ==
    \E c \in Clients :
        /\ ~panicked
        /\ cpc[c] = "running"
        /\ ~stalled[c]
        /\ stalled' = [stalled EXCEPT ![c] = TRUE]
        /\ UNCHANGED <<Program, callVars, pageVars>>

\* One device and one connection that sends nothing; its peer reads and
\* may stop reading, and keeps the connection open.  The resync timer does
\* not tick.
SpecEvict ==
    /\ Init
    /\ [][
        \/ Plug({1})
        \/ HwInput(FewSamples)
        \/ \E id \in Devices, opened \in BOOLEAN : openJoystick(id, opened)
        \/ pollState
        \/ BRecv(MaxSeqEvict)
        \/ BSeqLoad
        \/ BSeqStore
        \/ BSend
        \/ Connect(MaxSeqEvict, {"c1"})
        \/ HubRecvRegister
        \/ HubRegister
        \/ HubRecvEvict
        \/ HubUnregister
        \/ SISLoad
        \/ SISStore
        \/ SISSend
        \/ WritePump(FALSE)
        \/ WritePumpEnd
        \/ Stall
       ]_vars

\* ------------------------------------------------------------------------
\* frontend/app.js: the page's WebSocket
\* ------------------------------------------------------------------------
\* How many WebSockets the page creates.
MaxSockets == 4

\* Values of the URL parameter p ("" is an absent parameter).
Params == {"", "1", "2", "3", "0", "-2", "abc", "2abc"}

\* parseInt(text, 10): the leading decimal integer n, or NaN.
NaN == [isNaN |-> TRUE, n |-> 0]
Number(n) == [isNaN |-> FALSE, n |-> n]
parseInt(text) ==
    CASE text = "1" -> Number(1)
      [] text = "2" -> Number(2)
      [] text = "3" -> Number(3)
      [] text = "0" -> Number(0)
      [] text = "-2" -> Number(-2)
      [] text = "2abc" -> Number(2)
      [] OTHER -> NaN

\* Everything but the page.
Server ==
    <<deviceVars, readerVars, bcastVars, hubVars, clientVars, obsVars, resynced, lifeVars,
      callVars, stalled>>

InitPage ==
    /\ ProgramInit
    /\ arg = <<>>
    /\ res = NoCall
    /\ PageDeclared
    /\ urlP \in Params

\* init(): the player index is taken from parameter p, then
\* connectWebSocket() creates the first WebSocket.
init ==
    /\ ws = "none"
    /\ sockets = 0
    /\ selectedPlayerIndex' =
           IF urlP # "" /\ ~parseInt(urlP).isNaN /\ parseInt(urlP).n >= 1
           THEN parseInt(urlP).n ELSE selectedPlayerIndex
    /\ ws' = "connecting"
    /\ wsSent' = <<>>
    /\ sockets' = 1
    /\ UNCHANGED <<Server, urlP, timers, reconnectDelay>>

\* ws.onopen that sends select_player on the page's first WebSocket only.
onopenFirst ==
    /\ ws = "connecting"
    /\ ws' = "open"
    /\ reconnectDelay' = initialReconnectDelay
    /\ wsSent' = IF sockets = 1
                 THEN Append(wsSent, [type |-> "select_player",
                                      playerIndex |-> selectedPlayerIndex])
                 ELSE wsSent
    /\ UNCHANGED <<Server, urlP, selectedPlayerIndex, timers, sockets>>

\* ws.onopen
onopen ==
    /\ ws = "connecting"
    /\ ws' = "open"
    /\ reconnectDelay' = initialReconnectDelay
    /\ wsSent' = Append(wsSent, [type |-> "select_player",
                                 playerIndex |-> selectedPlayerIndex])
    /\ UNCHANGED <<Server, urlP, selectedPlayerIndex, timers, sockets>>

\* ws.onerror: ws.close().  The browser fires error on a WebSocket that
\* is failing, before its close event.
onerror ==
    /\ ws \in {"connecting", "open"}
    /\ ws' = "closing"
    /\ UNCHANGED <<Server, urlP, selectedPlayerIndex, wsSent, timers, reconnectDelay, sockets>>

\* ws.onclose: scheduleReconnect() sets a timer.
onclose ==
    /\ ws \in {"connecting", "open", "closing"}
    /\ ws' = "closed"
    /\ timers' = timers + 1
    /\ UNCHANGED <<Server, urlP, selectedPlayerIndex, wsSent, reconnectDelay, sockets>>

\* scheduleReconnect's callback: connectWebSocket(), then the delay grows
\* by half (whole ms) up to maxReconnectDelay.
reconnect ==
    /\ timers > 0
    /\ sockets < MaxSockets
    /\ timers' = timers - 1
    /\ ws' = "connecting"
    /\ wsSent' = <<>>
    /\ sockets' = sockets + 1
    /\ reconnectDelay' = IF (reconnectDelay * 3) \div 2 < maxReconnectDelay
                         THEN (reconnectDelay * 3) \div 2 ELSE maxReconnectDelay
    /\ UNCHANGED <<Server, urlP, selectedPlayerIndex>>

SpecPage == InitPage /\ [][init \/ onopen \/ onerror \/ onclose \/ reconnect]_vars

\* ------------------------------------------------------------------------
\* Sequence numbers
\* ------------------------------------------------------------------------
\* A step in which Run (sendFull, sendDelta) or SendInitialState builds a
\* full/delta envelope; the envelope carries the value seq has in that step.
BuildStep ==
    \/ bpc = "send" /\ bpc' = "select"
    \/ \E c \in Clients : cpc[c] = "sis_send" /\ cpc'[c] = "running"

\* C1: every full/delta envelope the Broadcaster builds carries a seq
\* strictly greater than the seq of every envelope built before it.
C1_SeqStrictlyIncreasing == [][BuildStep => seq > builtMax]_vars

\* C2: the seq values of the envelopes on one client's outbound queue are
\* strictly increasing in queue order (no reordering, no duplicate).
C2_QueueSeqIncreasing ==
    \A c \in Clients : \A i, j \in 1..Len(send[c]) :
        i < j => send[c][i].seq < send[c][j].seq

\* ------------------------------------------------------------------------
\* Initial state of a new client
\* ------------------------------------------------------------------------
\* C4: the first full/delta envelope put on a registered client's queue is
\* the full envelope of SendInitialState, never a delta.
C4_FullBeforeDelta == \A c \in Clients : firstEnv[c] # "delta"

\* ------------------------------------------------------------------------
\* Resync timer
\* ------------------------------------------------------------------------
\* The step in which Run sends the envelope of a timer tick.
TickSend == bpc = "send" /\ bsrc = "tick" /\ bpc' = "select"

\* The step in which Run takes a timer tick and goes on to send.
TickTaken == bpc = "select" /\ bpc' = "load" /\ bsrc' = "tick"

\* C7: the envelope of a timer tick is one full envelope of lastState with a
\* seq no earlier envelope carries, handed to every matching client; a tick
\* leads to a send only when lastState is connected, and otherwise nothing
\* is sent and seq is unchanged.
C7_TickSendsFreshFull ==
    [][/\ TickSend =>
            /\ seq > builtMax
            /\ send' = BroadcastSend(NewFullMessage(seq, lastState),
                                      lastState.PlayerIndex)
       /\ TickTaken => lastState.Connected /\ seq' = seq /\ send' = send]_vars

\* ------------------------------------------------------------------------
\* Empty deltas
\* ------------------------------------------------------------------------
\* Run reads a snapshot whose delta against lastState is empty.
EmptyRecv ==
    /\ bpc = "select"
    /\ Len(changes) > 0
    /\ Len(changes') < Len(changes)
    /\ ComputeDelta(lastState, Head(changes)) = {}

\* C8: no delta envelope on any client's queue has every field absent, and
\* when Run reads a snapshot whose delta against lastState is empty it
\* sends nothing, does not advance seq and goes back to its select.
C8_NoEmptyDelta ==
    [][/\ \A c \in Clients : \A i \in 1..Len(send'[c]) :
            send'[c][i].type = "delta" => send'[c][i].changes # {}
       /\ EmptyRecv => seq' = seq /\ send' = send /\ bpc' = "select"]_vars

\* Run has discarded a snapshot with an empty delta and is back at its
\* select, and a client subscribed to that snapshot's player index is
\* registered.
C8_Witness ==
    /\ skipped
    /\ Matching(lastState.PlayerIndex) # {}
    /\ bpc = "select"

\* ------------------------------------------------------------------------
\* Convergence of a client's view
\* ------------------------------------------------------------------------
\* The active device is connected, the next poll finds nothing new, and
\* nothing is queued or in progress in the Reader, Run or the Hub.
Quiescent ==
    /\ hasActive /\ activeID \in joysticks /\ activeID \in present
    /\ state.Connected
    /\ IsEmpty(ComputeDelta(prevState,
            Assemble(activeID, hw[activeID],
                     GetPlayerIndex(joystickOrder, activeID, hasActive))))
    /\ changes = <<>>
    /\ bpc = "select"
    /\ hubpc = "select"

\* C5: once input has stopped changing, every registered client subscribed
\* to the device's player index that was handed a timer full after the
\* Reader's last state change and has drained its queue shows the Reader's
\* current state.
C5_ViewConverges ==
    Quiescent =>
        \A c \in Matching(state.PlayerIndex) \cap resynced :
            (cpc[c] = "running" /\ send[c] = <<>> /\ evict[c] = 0)
                => IsEmpty(ComputeDelta(view[c], state))

\* ------------------------------------------------------------------------
\* Player-index routing
\* ------------------------------------------------------------------------
\* C3: a full or delta envelope of a device's snapshot put on a client's
\* queue comes from the player index the client is subscribed to.
C3_PlayerIsolation ==
    [][\A c \in Clients :
        Len(send'[c]) > Len(send[c]) =>
            LET m == send'[c][Len(send'[c])]
            IN  (m.type \in {"full", "delta"} /\ m.origin # 0)
                    => m.origin = playerIndex[c]]_vars

C9_FullChannelDrops ==
    /\ [](Len(changes) = ChangesCap /\ ~panicked => ENABLED pollState)
    /\ [][Len(changes) = ChangesCap =>
            (changes' = changes \/ changes' = Tail(changes))]_vars

\* The channel is full and the Reader's current state, which emitState
\* tried to send, is not the last snapshot queued: it was dropped.
C9_Witness ==
    /\ Len(changes) = ChangesCap
    /\ state # changes[Len(changes)]

\* A poll of the active device would assemble a state that is within
\* tolerance of the Reader's current state, the snapshot last emitted.
PollSame ==
    /\ hasActive /\ activeID \in joysticks /\ activeID \in present
    /\ IsEmpty(ComputeDelta(state,
            Assemble(activeID, hw[activeID],
                     GetPlayerIndex(joystickOrder, activeID, hasActive))))

\* C10: when a poll would assemble a state within tolerance of the last
\* emitted snapshot, the Reader writes nothing to the change channel and
\* leaves CurrentState alone.
C10_NoEmissionWithinTolerance ==
    [][PollSame => (Len(changes') <= Len(changes) /\ state' = state)]_vars

\* ------------------------------------------------------------------------
\* The Hub's live set
\* ------------------------------------------------------------------------
\* The step in which Hub.Run serves an unregister request for hubarg.
UnregStep == hubpc = "unregister" /\ hubpc' = "select"

\* C11: serving an unregister request leaves the client out of the live set
\* with its queue closed; the queue is closed only when the client was still
\* a member, a request for a client that is no longer a member changes
\* nothing, and no request makes the Hub panic.
C11_UnregisterIdempotent ==
    [][UnregStep =>
        /\ clients' = clients \ {hubarg}
        /\ sendClosed'[hubarg]
        /\ hubarg \in clients => ~sendClosed[hubarg]
        /\ hubarg \notin clients => sendClosed' = sendClosed /\ clients' = clients
        /\ \A d \in Clients \ {hubarg} : sendClosed'[d] = sendClosed[d]
        /\ ~panicked']_vars

\* Hub.Run has served two or more unregister requests for one client.
C11_Witness ==
    \E c \in Clients : unregs[c] >= 2 /\ sendClosed[c] /\ c \notin clients /\ ~panicked

\* C12: every client of the live set has an open queue (so a client whose
\* queue is closed is not in the live set), and a client is added to the
\* live set only if no unregister request for it was ever served.
C12_ClientLifecycle ==
    /\ [](\A c \in clients : ~sendClosed[c])
    /\ [][\A c \in clients' \ clients :
            unregs[c] = 0 /\ ~sendClosed[c] /\ c = hubarg]_vars

\* A client was registered, got its initial state and was then unregistered.
C12_Witness ==
    \E c \in Clients :
        cpc[c] = "running" /\ sendClosed[c] /\ c \notin clients /\ unregs[c] = 1

\* ------------------------------------------------------------------------
\* BroadcastToPlayer
\* ------------------------------------------------------------------------
\* The step in which Run hands its envelope to BroadcastToPlayer.
BcastStep == bpc = "send" /\ bpc' = "select"

\* C13: BroadcastToPlayer never waits; a matching client with room gets the
\* envelope appended, a matching client whose queue is full keeps its queue
\* and is the only one scheduled for unregistration, a non-matching client
\* keeps its queue and is not scheduled, and membership, subscriptions and
\* the queues' open/closed state are left alone.
C13_BroadcastFrame ==
    /\ [](bpc = "send" /\ ~panicked => ENABLED BSend)
    /\ [][BcastStep =>
            /\ \A c \in Clients :
                 IF c \in Matching(lastState.PlayerIndex)
                 THEN IF Len(send[c]) < SendCap
                      THEN /\ Len(send'[c]) = Len(send[c]) + 1
                           /\ SubSeq(send'[c], 1, Len(send[c])) = send[c]
                           /\ send'[c][Len(send'[c])].seq = seq
                           /\ send'[c][Len(send'[c])].type \in {"full", "delta"}
                           /\ evict'[c] = evict[c]
                      ELSE /\ send'[c] = send[c]
                           /\ evict'[c] = evict[c] + 1
                 ELSE /\ send'[c] = send[c]
                      /\ evict'[c] = evict[c]
            /\ clients' = clients
            /\ playerIndex' = playerIndex
            /\ sendClosed' = sendClosed]_vars

\* A broadcast found one registered client's queue full and scheduled it,
\* while another registered client of the same player index got the delta.
C13_Witness ==
    \E c, d \in clients :
        /\ c # d
        /\ playerIndex[c] = playerIndex[d]
        /\ evict[c] > 0 /\ evict[d] = 0
        /\ Len(send[c]) = SendCap
        /\ Len(send[d]) > 0
        /\ send[d][Len(send[d])].type = "delta"
        /\ \A i \in 1..SendCap : send[c][i].seq < send[d][Len(send[d])].seq

\* ------------------------------------------------------------------------
\* Register, Unregister and the hub's Run loop
\* ------------------------------------------------------------------------
\* A goroutine is inside Register or Unregister, waiting for Hub.Run.
PendingCall(c) == cpc[c] = "register" \/ rpc[c] = "unreg" \/ evict[c] > 0

\* C14: a call to Register or Unregister (an eviction goroutine's included)
\* never waits on a hub that cannot take another step: while a call is
\* pending, Hub.Run can receive it or finish the request it is serving, so
\* a scheduled Run loop lets every call return.
C14_CallsReturn == (\E c \in Clients : PendingCall(c)) => ENABLED HubStep

\* ------------------------------------------------------------------------
\* select_player
\* ------------------------------------------------------------------------
\* The read loop of c takes a select_player request from the connection.
SelectStep(c) == rpc[c] = "run" /\ confirm'[c] # confirm[c]

\* C15: a select_player request whose index names no device of the
\* connection order queues no envelope anywhere, leaves the client's
\* playerIndex, the Reader's active device and the live set alone, and the
\* read loop goes on to the next message.
C15_InvalidSelectIgnored ==
    [][\A c \in Clients :
          SelectStep(c) /\ confirm'[c] \notin 1..Len(joystickOrder)
          => /\ send' = send
             /\ playerIndex' = playerIndex
             /\ activeID' = activeID /\ hasActive' = hasActive
             /\ state' = state /\ changes' = changes
             /\ clients' = clients /\ sendClosed' = sendClosed
             /\ rpc'[c] = "run"
             /\ ~panicked']_vars

\* Index 99 was requested with one device open and the client still
\* follows player 1 with its read loop running.
C15_Witness ==
    \E c \in clients :
        /\ confirm[c] = 99 /\ Len(joystickOrder) = 1
        /\ playerIndex[c] = 1 /\ rpc[c] = "run" /\ ~sendClosed[c]
        /\ \A i \in 1..Len(send[c]) : send[c][i].type # "player_selected"

\* The read loop of c gets past its confirmation send.
ConfirmStep(c) == rpc[c] = "confirm" /\ rpc'[c] = "run"

\* C16: an accepted select_player n makes the client's playerIndex n and
\* puts exactly one player_selected envelope with playerIndex n at the end
\* of that client's own queue; no other client's queue or playerIndex
\* changes.
C16_ValidSelectConfirmed ==
    [][\A c \in Clients :
          /\ SelectStep(c) /\ confirm'[c] \in 1..Len(joystickOrder)
             => /\ playerIndex' = [playerIndex EXCEPT ![c] = confirm'[c]]
                /\ rpc'[c] = "confirm"
                /\ send' = send
          /\ ConfirmStep(c)
             => /\ send' = [send EXCEPT ![c] =
                              Append(@, NewPlayerSelectedMessage(playerIndex[c]))]
                /\ playerIndex' = playerIndex
                /\ ~panicked']_vars

\* The read loop holds a message it will not act on.
Ignoring(c) == rpc[c] \in {"bad_json", "other_type"}

\* C17: a message that is not valid JSON, or whose type is not
\* select_player, changes no playerIndex, not the Reader's active device
\* and no queue; the connection stays open and the read loop, never stuck
\* on such a message, goes back to reading.
C17_OtherMessagesIgnored ==
    /\ [](\A c \in Clients : Ignoring(c) /\ ~panicked => ENABLED ReadContinue)
    /\ [][\A c \in Clients :
            /\ rpc[c] = "run" /\ rpc'[c] \in {"bad_json", "other_type"}
               => /\ send' = send /\ playerIndex' = playerIndex
                  /\ activeID' = activeID /\ hasActive' = hasActive
                  /\ state' = state /\ changes' = changes
                  /\ clients' = clients /\ sendClosed' = sendClosed
            /\ Ignoring(c) /\ rpc'[c] # rpc[c]
               => /\ rpc'[c] = "run"
                  /\ send' = send /\ playerIndex' = playerIndex
                  /\ activeID' = activeID /\ hasActive' = hasActive
                  /\ state' = state /\ changes' = changes
                  /\ clients' = clients /\ sendClosed' = sendClosed]_vars

\* Two registered clients with queued envelopes, one holding a message
\* that does not parse and one a message of another type.
C17_Witness ==
    \E c, d \in clients :
        /\ rpc[c] = "bad_json" /\ rpc[d] = "other_type"
        /\ Len(send[c]) > 0 /\ Len(send[d]) > 0
        /\ hasActive

\* ------------------------------------------------------------------------
\* Attach and detach
\* ------------------------------------------------------------------------
\* openJoystick adds device id to the open-device map while none is active.
AttachStep(id) == ~hasActive /\ id \notin joysticks /\ id \in joysticks'

\* removeJoystick takes the active device id out of the open-device map.
DetachStep(id) == hasActive /\ activeID = id /\ id \in joysticks /\ id \notin joysticks'

\* The snapshot of device id with every input at its default.
InitialSnapshot(id) ==
    [ZeroState EXCEPT !.Connected = TRUE,
                      !.Name = DeviceName(id),
                      !.ControllerType = GetMapping(DeviceVendor(id), DeviceProduct(id)).Name]

\* The emission the change channel takes when it has room.
Emitted(s) == Len(changes) < ChangesCap => changes' = Append(changes, s)

\* C18: a device attached while no device is active becomes the active one
\* and the snapshot emitted in that step (the channel having room) is
\* connected, carries its name and its mapping's controllerType, and has
\* no button, no d-pad direction, sticks at (0,0) and triggers at 0.
C18_AttachEmitsInitial ==
    [][\A id \in Devices :
          AttachStep(id)
          => /\ hasActive' /\ activeID' = id
             /\ [state' EXCEPT !.PlayerIndex = 0] = InitialSnapshot(id)
             /\ Emitted(state')]_vars

\* C19: when the active device is detached and an open device is still
\* connected, the earliest-attached still-connected one becomes active and
\* the snapshot emitted (the channel having room) carries its name and
\* controllerType.
C19_PromotionInOrder ==
    [][\A id \in Devices :
          DetachStep(id) /\ joysticks' \cap present # {}
          => /\ hasActive'
             /\ activeID' \in joysticks' \cap present
             /\ \A d \in joysticks' \cap present :
                  IndexOf(joystickOrder', activeID') <= IndexOf(joystickOrder', d)
             /\ state'.Connected
             /\ state'.Name = DeviceName(activeID')
             /\ state'.ControllerType =
                  GetMapping(DeviceVendor(activeID'), DeviceProduct(activeID')).Name
             /\ Emitted(state')]_vars

\* C20: when the active device is detached and no open device is still
\* connected, the zeroed snapshot is emitted (the channel having room), and
\* CurrentState reports connected=false for as long as no device is active.
C20_DetachEmitsZero ==
    /\ [][\A id \in Devices :
            DetachStep(id) /\ joysticks' \cap present = {}
            => /\ ~hasActive'
               /\ state' = ZeroState
               /\ Emitted(ZeroState)]_vars
    /\ [](~hasActive => ~state.Connected)

\* ------------------------------------------------------------------------
\* Shutdown
\* ------------------------------------------------------------------------
\* C21: Run has returned only if the context was cancelled and no device
\* handle is open any more, and main has called srv.Shutdown only if Run
\* has returned (readerDone closed), so no handle is open by then.
C21_RunReturnsClosed ==
    /\ runpc # "loop" => ctxDone /\ joysticks = {}
    /\ mainpc = "shutdown" => runpc = "done" /\ joysticks = {}

\* main has called srv.Shutdown after a cancellation that found the active
\* device's handle open: only closeAll empties the map and leaves hasActive.
C21_Witness == mainpc = "shutdown" /\ hasActive /\ joysticks = {} /\ 1 \in present

\* C22: once the context is cancelled, the shutdown path can always take
\* its next step until main is past <-readerDone: Run's loop reaches the
\* ctx.Done case, Run returns, readerDone is closed and main proceeds,
\* whatever the change channel, the Broadcaster, the Hub and the clients do.
C22_CancelStopsRun == ctxDone /\ mainpc # "shutdown" => ENABLED StopStep

\* ------------------------------------------------------------------------
\* SetActiveByPlayerIndex
\* ------------------------------------------------------------------------
\* The read loop of c passes a select_player request to SetActiveByPlayerIndex.
SwitchStep(c) == rpc[c] = "run" /\ (confirm'[c] # confirm[c] \/ rpc'[c] = "confirm")

\* pollState stores and emits a new snapshot.
PollEmit == prevState' # prevState

\* C23: SetActiveByPlayerIndex(n) with n outside 1..Len(joystickOrder)
\* returns false and changes nothing of the Reader; otherwise it returns
\* true and the n-th device of the connection order is the active one, and
\* every snapshot pollState emits carries the ordinal of the active device.
C23_SetActiveByPlayerIndex ==
    /\ [][\A c \in Clients :
            SwitchStep(c)
            => IF confirm'[c] \in 1..Len(joystickOrder)
               THEN /\ rpc'[c] = "confirm"
                    /\ hasActive' /\ activeID' = joystickOrder[confirm'[c]]
                    /\ joysticks' = joysticks /\ joystickOrder' = joystickOrder
               ELSE /\ rpc'[c] = "run"
                    /\ UNCHANGED readerVars]_vars
    /\ [][PollEmit =>
            /\ hasActive /\ state'.PlayerIndex \in 1..Len(joystickOrder)
            /\ joystickOrder[state'.PlayerIndex] = activeID]_vars

\* After select_player 2 with two devices open, device 2 is active and the
\* polled snapshot carries playerIndex 2.
C23_Witness ==
    /\ Len(joystickOrder) = 2 /\ hasActive /\ activeID = joystickOrder[2]
    /\ confirm["c1"] = 2 /\ playerIndex["c1"] = 2
    /\ state.PlayerIndex = 2 /\ prevState = state

\* ------------------------------------------------------------------------
\* Shared variables and the locks held when they are accessed
\* ------------------------------------------------------------------------
\* The goroutines: Broadcaster.Run, Hub.Run, each connection's handler and
\* each client's read loop.
Goroutines ==
    {<<"Broadcaster.Run", "">>, <<"Hub.Run", "">>}
    \cup {<<"handler", c>> : c \in Clients}
    \cup {<<"ReadPump", c>> : c \in Clients}

\* One access: the variable (of, for a Client field, which client), whether
\* it is a write, and the locks held around it.
Access(name, c, write, locks) ==
    [name |-> name, client |-> c, write |-> write, locks |-> locks]

\* The accesses to shared variables in the step goroutine g takes next.
\* Run touches b.lastState and b.seq with no lock; BroadcastToPlayer reads
\* h.clients and each client.playerIndex under h.mu.RLock; SendInitialState
\* touches b.seq and b.lastState with no lock; SetPlayerIndex writes
\* c.playerIndex with no lock; Hub.Run writes h.clients under h.mu.Lock.
NextAccess(g) ==
    IF g[1] = "Broadcaster.Run"
    THEN IF bpc = "select"
         THEN IF Len(changes) > 0
              THEN {Access("lastState", "", FALSE, {}), Access("lastState", "", TRUE, {})}
              ELSE {Access("lastState", "", FALSE, {})}
         ELSE IF bpc = "load" THEN {Access("seq", "", FALSE, {})}
         ELSE IF bpc = "store" THEN {Access("seq", "", TRUE, {})}
         ELSE {Access("seq", "", FALSE, {}), Access("lastState", "", FALSE, {}),
               Access("clients", "", FALSE, {"h.mu"})}
              \cup {Access("playerIndex", c, FALSE, {"h.mu"}) : c \in clients}
    ELSE IF g[1] = "Hub.Run"
    THEN IF hubpc \in {"register", "unregister"}
         THEN {Access("clients", "", TRUE, {"h.mu"})}
         ELSE {}
    ELSE IF g[1] = "handler"
    THEN IF cpc[g[2]] = "sis_load" THEN {Access("seq", "", FALSE, {})}
         ELSE IF cpc[g[2]] = "sis_store" THEN {Access("seq", "", TRUE, {})}
         ELSE IF cpc[g[2]] = "sis_send"
         THEN {Access("seq", "", FALSE, {}), Access("lastState", "", FALSE, {})}
         ELSE {}
    ELSE IF rpc[g[2]] = "run" /\ Len(joystickOrder) > 0
         THEN {Access("playerIndex", g[2], TRUE, {})}
         ELSE {}

\* Two goroutines are about to access the same variable, one of them
\* writing, with no lock in common.
RaceOn(name) ==
    \E g1, g2 \in Goroutines :
        /\ g1 # g2
        /\ \E a1 \in NextAccess(g1), a2 \in NextAccess(g2) :
              /\ a1.name = name /\ a2.name = name
              /\ a1.client = a2.client
              /\ a1.write \/ a2.write
              /\ a1.locks \cap a2.locks = {}

\* C24: no shared variable is accessed by two goroutines, one writing,
\* without a common lock: not b.seq, not b.lastState, not a client's
\* playerIndex, not the hub's client set.
C24_NoDataRace ==
    ~RaceOn("seq") /\ ~RaceOn("lastState") /\ ~RaceOn("playerIndex") /\ ~RaceOn("clients")

\* ------------------------------------------------------------------------
\* Attach notifications that open nothing
\* ------------------------------------------------------------------------
\* openJoystick(id), with sdl.OpenJoystick succeeding or not, can change
\* something in the current state.
AttachChanges(id, opened) == ENABLED (openJoystick(id, opened) /\ vars' # vars)

\* C25: an attach notification for a device that cannot be opened, or for
\* one already in the open-device map, changes nothing (not the map, the
\* active device, CurrentState or the change channel) and Run's loop goes
\* on: the notification can always be handled while Run is in its loop.
C25_FailedAttachIgnored ==
    \A id \in Devices :
        /\ ~AttachChanges(id, FALSE)
        /\ id \in joysticks => ~AttachChanges(id, TRUE)
        /\ runpc = "loop" /\ ~panicked => ENABLED openJoystick(id, FALSE)
        /\ runpc = "loop" /\ ~panicked /\ id \in joysticks \cap present
           => ENABLED openJoystick(id, TRUE)

\* A second attach notification can arrive for the open, active device
\* while another device fails to open, the change channel having room
\* after Run took the attach snapshot.
C25_Witness ==
    \E id \in joysticks \cap present, other \in Devices \ joysticks :
        /\ hasActive /\ activeID = id
        /\ Len(changes) < ChangesCap /\ lastState.Connected
        /\ ENABLED openJoystick(id, TRUE)
        /\ ENABLED openJoystick(other, FALSE)

\* ------------------------------------------------------------------------
\* Device mappings
\* ------------------------------------------------------------------------
\* C26: every call of GetMapping returns the registered profile when the
\* vendor/product pair is in the known-device table and the profile named
\* "generic" when it is not, and repeated calls return the same profile.
C26_GetMappingGeneric ==
    \A i \in 1..Len(res.val) :
        /\ IF <<arg.vendorID, arg.productID>> \in DOMAIN knownDevices
           THEN res.val[i] = knownDevices[<<arg.vendorID, arg.productID>>]
           ELSE res.val[i].Name = "generic"
        /\ res.val[i] = res.val[1]

C28_TriggerLinear ==
    \A i \in 1..Len(res.val) :
        LET r == res.val[i]
            exact == QuotTrunc((arg.raw - arg.rawMin) * One, arg.rawMax - arg.rawMin)
        IN  r.fn = "NormalizeTrigger"
            => /\ arg.rawMin < arg.rawMax
                  => r.v = IF exact < 0 THEN 0 ELSE IF exact > One THEN One ELSE exact
               /\ arg.rawMin = arg.rawMax => r.v = 0

\* ------------------------------------------------------------------------
\* Deltas
\* ------------------------------------------------------------------------
\* Two analog values differ by more than the tolerance 0.01.
Beyond(a, b) == Abs(a - b) > analogThreshold

SticksDiffer(old, new) ==
    \/ Beyond(old.Sticks.lx, new.Sticks.lx) \/ Beyond(old.Sticks.ly, new.Sticks.ly)
    \/ Beyond(old.Sticks.rx, new.Sticks.rx) \/ Beyond(old.Sticks.ry, new.Sticks.ry)
    \/ old.Sticks.lp # new.Sticks.lp \/ old.Sticks.rp # new.Sticks.rp

TriggersDiffer(old, new) ==
    Beyond(old.Triggers.lt, new.Triggers.lt) \/ Beyond(old.Triggers.rt, new.Triggers.rt)

\* C29: ComputeDelta(prev, cur) holds connected, controllerType, name,
\* buttons and dpad each exactly when that field differs; sticks (those of
\* cur, both) exactly when a position component differs by more than 0.01
\* or a pressed flag differs; triggers (those of cur, both) exactly when a
\* value differs by more than 0.01; and it is empty exactly when none of
\* these holds.
C29_DeltaExact ==
    \A i \in 1..Len(res.val) :
        LET d == res.val[i]
            old == arg.old
            new == arg.new
        IN  /\ "connected" \in d.present <=> old.Connected # new.Connected
            /\ "controllerType" \in d.present <=> old.ControllerType # new.ControllerType
            /\ "name" \in d.present <=> old.Name # new.Name
            /\ "buttons" \in d.present <=> old.Buttons # new.Buttons
            /\ "dpad" \in d.present <=> old.Dpad # new.Dpad
            /\ "sticks" \in d.present <=> SticksDiffer(old, new)
            /\ "triggers" \in d.present <=> TriggersDiffer(old, new)
            /\ \A f \in d.present : d.data[f] = DeltaField(new, f)
            /\ d.IsEmpty <=> /\ old.Connected = new.Connected
                             /\ old.ControllerType = new.ControllerType
                             /\ old.Name = new.Name
                             /\ old.Buttons = new.Buttons
                             /\ old.Dpad = new.Dpad
                             /\ ~SticksDiffer(old, new)
                             /\ ~TriggersDiffer(old, new)

\* C30: diffing a snapshot against itself gives a delta with no field:
\* ComputeDelta(s, s).IsEmpty() is true for every state s.
C30_SelfDeltaEmpty ==
    \A i \in 1..Len(res.val) :
        arg.old = arg.new => res.val[i].IsEmpty /\ res.val[i].present = {}

\* ComputeDelta has been called with a snapshot whose every field is set,
\* and with the same snapshot again, and has returned an empty delta.
C30_Witness ==
    /\ res.done
    /\ arg.old = Busy /\ arg.new = Busy
    /\ res.val[1].IsEmpty

\* ------------------------------------------------------------------------
\* Deadzone
\* ------------------------------------------------------------------------
\* C31: ApplyDeadzone(v, t) is 0 when |v| < t and v otherwise, and applying
\* it again to its result with the same t returns that result.
C31_DeadzoneIdempotent ==
    /\ res.done => res.val[1] = IF Abs(arg.v) < arg.threshold THEN 0 ELSE arg.v
    /\ \A i \in 2..Len(res.val) : res.val[i] = res.val[1]

\* ApplyDeadzone was applied twice to a value exactly at the threshold,
\* which passes through.
C31_Witness ==
    /\ Len(res.val) = 2
    /\ arg.v = deadzone /\ arg.threshold = deadzone
    /\ res.val = <<deadzone, deadzone>>

\* ------------------------------------------------------------------------
\* Deltas between count-triggered full syncs
\* ------------------------------------------------------------------------
\* Run sends a full envelope for a change because of the delta count, and
\* it is not the first such envelope (no timer tick has occurred since the
\* one before it).
CountFullAgain ==
    /\ bpc = "send" /\ bpc' = "select"
    /\ bsrc = "change"
    /\ deltaRun' = 0
    /\ seq > deltaCountSync + MaxSeq

\* C32: with no timer-driven or initial full envelope in between, exactly
\* deltaCountSync (100) delta envelopes are sent between one count-triggered
\* full envelope and the next, and the counter restarts from zero.
C32_HundredDeltasBetweenFulls ==
    [][CountFullAgain => deltaRun = deltaCountSync /\ deltaCount' = 0]_vars

\* ------------------------------------------------------------------------
\* The page's subscription
\* ------------------------------------------------------------------------
\* The player index parameter p chooses; 1 when p is absent or unusable.
Chosen ==
    CASE urlP = "1" -> 1
      [] urlP \in {"2", "2abc"} -> 2
      [] urlP = "3" -> 3
      [] OTHER -> 1

\* C33: every WebSocket of the page, the first and each one created by a
\* scheduled reconnection, has sent exactly one select_player once it is
\* open and none before, carrying the player index chosen by parameter p
\* (1 by default); and a close schedules exactly one reconnection.
C33_SelectOnEveryOpen ==
    /\ ws = "connecting" => wsSent = <<>>
    /\ ws \in {"open", "closing", "closed"} => Len(wsSent) <= 1
    /\ ws = "open"
       => wsSent = <<[type |-> "select_player", playerIndex |-> Chosen]>>
    /\ \A i \in 1..Len(wsSent) : wsSent[i].playerIndex = Chosen
    /\ ws = "closed" => timers = 1
    /\ ws # "closed" => timers = 0

\* The page's third WebSocket, created by a scheduled reconnection, is open
\* and has sent select_player for player 2.
C33_Witness ==
    /\ urlP = "2"
    /\ sockets = 3
    /\ ws = "open"
    /\ wsSent = <<[type |-> "select_player", playerIndex |-> 2]>>

\* ------------------------------------------------------------------------
\* Sends on a closed queue
\* ------------------------------------------------------------------------
\* C34: no goroutine is at, or blocked in, a send on a client's queue that
\* the hub has closed: not the read loop's confirmation, not
\* SendInitialState (BroadcastToPlayer sends to members of the live set
\* only), and so no send has panicked.
C34_NoSendOnClosed ==
    /\ \A c \in Clients :
           sendClosed[c] => rpc[c] # "confirm" /\ cpc[c] \notin {"sis_send", "aborted"}
    /\ \A c \in clients : ~sendClosed[c]
    /\ ~panicked

\* ------------------------------------------------------------------------
\* The client's state against the Broadcaster's
\* ------------------------------------------------------------------------
\* Client c started from a full envelope, no envelope was dropped for it,
\* it has applied everything sent to it, and Run is between two iterations.
UpToDate(c) ==
    /\ c \in clients
    /\ cpc[c] = "running"
    /\ firstEnv[c] = "full"
    /\ evict[c] = 0 /\ ~sendClosed[c]
    /\ send[c] = <<>>
    /\ bpc = "select" /\ hubpc = "select"

Within(a, b) == Abs(a - b) <= analogThreshold

\* C35: a client that started from a full envelope and has applied every
\* later envelope, none dropped, holds the Broadcaster's last snapshot on
\* connected, controllerType, name, buttons and d-pad and is within 0.01 of
\* it on every stick and trigger value.
C35_ViewTracksLastState ==
    \A c \in Clients :
        UpToDate(c) =>
            /\ view[c].Connected = lastState.Connected
            /\ view[c].ControllerType = lastState.ControllerType
            /\ view[c].Name = lastState.Name
            /\ view[c].Buttons = lastState.Buttons
            /\ view[c].Dpad = lastState.Dpad
            /\ view[c].Sticks.lp = lastState.Sticks.lp
            /\ view[c].Sticks.rp = lastState.Sticks.rp
            /\ Within(view[c].Sticks.lx, lastState.Sticks.lx)
            /\ Within(view[c].Sticks.ly, lastState.Sticks.ly)
            /\ Within(view[c].Sticks.rx, lastState.Sticks.rx)
            /\ Within(view[c].Sticks.ry, lastState.Sticks.ry)
            /\ Within(view[c].Triggers.lt, lastState.Triggers.lt)
            /\ Within(view[c].Triggers.rt, lastState.Triggers.rt)

\* ------------------------------------------------------------------------
\* Promotion after the active device's detach
\* ------------------------------------------------------------------------
\* removeJoystick closes the active device and promotes another one.
PromoteStep ==
    /\ hasActive /\ activeID \in joysticks /\ activeID \notin joysticks'
    /\ hasActive' /\ activeID' # activeID

\* C36: the snapshot emitted when a device is promoted after the active
\* device's detach holds, for buttons, d-pad, sticks and triggers, the
\* promoted device's own values or the defaults, never values that only the
\* detached device had.
C36_PromotionSnapshotClean ==
    [][PromoteStep =>
        LET own == Assemble(activeID', hw[activeID'], state'.PlayerIndex)
        IN  /\ state'.Buttons \in {own.Buttons, ZeroState.Buttons}
            /\ state'.Dpad \in {own.Dpad, ZeroState.Dpad}
            /\ state'.Sticks \in {own.Sticks, ZeroState.Sticks}
            /\ state'.Triggers \in {own.Triggers, ZeroState.Triggers}
            /\ Emitted(state')]_vars

\* ------------------------------------------------------------------------
\* The active device and the open-device map
\* ------------------------------------------------------------------------
\* C37: in every state of the Reader, also after shutdown, an active device
\* that is set is a key of the open-device map (so what the Reader polls is
\* an open handle), and once Run has returned no handle is left to close.
C37_ActiveIsOpen ==
    /\ hasActive => activeID \in joysticks
    /\ runpc # "loop" => joysticks = {}

\* ------------------------------------------------------------------------
\* Attach and detach of a device that is not the active one
\* ------------------------------------------------------------------------
\* openJoystick opens a device while another one is active.
AttachOther(id) == hasActive /\ id \notin joysticks /\ id \in joysticks'

\* removeJoystick closes a device that is not the active one.
DetachOther(id) ==
    id \in joysticks /\ id \notin joysticks' /\ ~(hasActive /\ activeID = id)

\* C38: attaching a device while another one is active, and detaching a
\* device that is not the active one, leave the active device, CurrentState
\* and the change channel as they are; the active device changes only when
\* it is itself detached (no selection is made here).
C38_OtherDeviceFrame ==
    /\ [][\A id \in Devices :
            AttachOther(id) \/ DetachOther(id)
                => UNCHANGED <<activeID, hasActive, state, prevState, changes>>]_vars
    /\ [][hasActive /\ (~hasActive' \/ activeID' # activeID)
            => activeID \in joysticks /\ activeID \notin joysticks']_vars

\* Two devices are open, the one attached first is still the active one
\* with its button held in CurrentState, and the other one has been
\* unplugged, so that its detach is the next thing the Reader can do.
C38_Witness ==
    /\ Len(joystickOrder) = 2
    /\ hasActive /\ activeID = joystickOrder[1]
    /\ state.Connected /\ state.Buttons = {"a"} /\ state.PlayerIndex = 1
    /\ joystickOrder[2] \in joysticks \ present
    /\ ENABLED removeJoystick(joystickOrder[2])

\* ------------------------------------------------------------------------
\* Eviction of a client whose queue is full
\* ------------------------------------------------------------------------
\* Client c's write loop can take a step: write the next envelope or end.
WriteLoopCanStep(c) ==
    \/ ENABLED (WritePump(FALSE) /\ send'[c] # send[c])
    \/ ENABLED (WritePumpEnd /\ wpc'[c] # wpc[c])

\* C39: a client found full by a broadcast is removed and its queue closed
\* (Hub.Run can always serve the pending eviction, so no eviction goroutine
\* stays blocked), and its write loop then ends: while it is still running
\* after the close it is not blocked, it can drain the queue or end.
C39_EvictedClientEnds ==
    /\ (\E c \in Clients : evict[c] > 0) /\ ~panicked => ENABLED HubStep
    /\ \A c \in Clients :
           sendClosed[c] /\ wpc[c] = "run" /\ ~panicked => WriteLoopCanStep(c)
====
